---------------------------- MODULE Spec2Model ----------------------------
(***************************************************************************)
(* Audit-timeline reconstruction (fairtrade-infra-benchmarks).             *)
(*                                                                         *)
(*   - the chunked range scanner  ethGetLogsChunkedWithProgress            *)
(*     (scripts/reconstruct-audit-from-logs.ts),                           *)
(*   - the log decoder            decodeLogsToEvents                       *)
(*   - the timeline merger        sortEvents / events.sort                 *)
(*   - the receipt pipeline       runAuditQueryOnce and main's receipt loop*)
(*                                                                         *)
(* JavaScript strings are modelled as sequences of one-character strings,  *)
(* so that toLowerCase, startsWith, slice, includes and BigInt(hex) are    *)
(* computed and not assumed.                                               *)
(***************************************************************************)
EXTENDS Integers, Sequences, FiniteSets, TLC

(***************************************************************************)
(* Strings                                                                 *)
(***************************************************************************)
Rep(c, n) == [i \in 1..n |-> c]

LowerOf(c) ==
    CASE c = "A" -> "a" [] c = "B" -> "b" [] c = "C" -> "c" [] c = "D" -> "d"
      [] c = "E" -> "e" [] c = "F" -> "f" [] c = "G" -> "g" [] c = "H" -> "h"
      [] c = "I" -> "i" [] c = "J" -> "j" [] c = "K" -> "k" [] c = "L" -> "l"
      [] c = "M" -> "m" [] c = "N" -> "n" [] c = "O" -> "o" [] c = "P" -> "p"
      [] c = "Q" -> "q" [] c = "R" -> "r" [] c = "S" -> "s" [] c = "T" -> "t"
      [] c = "U" -> "u" [] c = "V" -> "v" [] c = "W" -> "w" [] c = "X" -> "x"
      [] c = "Y" -> "y" [] c = "Z" -> "z" [] OTHER -> c

\* String.prototype.toLowerCase
toLowerCase(s) == [i \in 1..Len(s) |-> LowerOf(s[i])]

\* String.prototype.startsWith
startsWith(s, p) == Len(s) >= Len(p) /\ SubSeq(s, 1, Len(p)) = p

\* String.prototype.includes
includes(s, sub) ==
    \E i \in 0..(Len(s) - Len(sub)) : SubSeq(s, i + 1, i + Len(sub)) = sub

Min(a, b) == IF a <= b THEN a ELSE b
Max(a, b) == IF a >= b THEN a ELSE b

\* String.prototype.slice(from, to) for 0 <= from, on 0-based offsets
slice(s, from, to) == SubSeq(s, Min(from, Len(s)) + 1, Min(to, Len(s)))

Prefix0x == <<"0","x">>

(***************************************************************************)
(* Hexadecimal quantities                                                  *)
(***************************************************************************)
HexDigits == <<"0","1","2","3","4","5","6","7","8","9","a","b","c","d","e","f">>
DecDigits == <<"0","1","2","3","4","5","6","7","8","9">>

\* value of one hexadecimal digit (either case), -1 when c is not one
HexVal(c) ==
    LET l == LowerOf(c)
    IN  IF \E k \in 1..16 : HexDigits[k] = l
        THEN (CHOOSE k \in 1..16 : HexDigits[k] = l) - 1
        ELSE -1

DecVal(c) ==
    IF \E k \in 1..10 : DecDigits[k] = c
    THEN (CHOOSE k \in 1..10 : DecDigits[k] = c) - 1
    ELSE -1

DigitOf(c, base) == IF base = 16 THEN HexVal(c) ELSE DecVal(c)

RECURSIVE DigitsFold(_, _, _)
DigitsFold(s, base, acc) ==
    IF s = <<>> THEN acc
    ELSE DigitsFold(Tail(s), base, acc * base + DigitOf(Head(s), base))

\* what BigInt raises a SyntaxError on is returned as Thrown
Thrown == 0 - 1

\* value of the digit string s in the given base, Thrown when a character is no
\* digit; leading zeros are skipped before the digits are folded
DigitsValue(s, base) ==
    IF \E i \in 1..Len(s) : DigitOf(s[i], base) < 0 THEN Thrown
    ELSE LET nz == {i \in 1..Len(s) : DigitOf(s[i], base) # 0}
         IN  IF nz = {} THEN 0
             ELSE DigitsFold(SubSeq(s, CHOOSE i \in nz : \A j \in nz : i <= j, Len(s)),
                             base, 0)

\* BigInt(h) for a hexadecimal ("0x...") or decimal string
BigIntOf(hex) ==
    IF hex = <<>> THEN 0
    ELSE IF Len(hex) >= 2 /\ hex[1] = "0" /\ LowerOf(hex[2]) = "x"
         THEN IF Len(hex) = 2 THEN Thrown ELSE DigitsValue(SubSeq(hex, 3, Len(hex)), 16)
         ELSE DigitsValue(hex, 10)

hexToBigInt(hex) == BigIntOf(hex)

RECURSIVE HexOf(_)
\* BigInt.prototype.toString(16)
HexOf(n) == IF n < 16 THEN <<HexDigits[n + 1]>> ELSE HexOf(n \div 16) \o <<HexDigits[(n % 16) + 1]>>

toHexQty(n) == Prefix0x \o HexOf(n)

RECURSIVE DecOf(_)
DecOf(n) ==
    IF n < 10 THEN <<DecDigits[n + 1]>>
    ELSE DecOf(n \div 10) \o <<DecDigits[(n % 10) + 1]>>

\* BigInt.prototype.toString() of a non-negative value
toString(n) == DecOf(n)

(***************************************************************************)
(* Log decoding without ABI                                                *)
(***************************************************************************)
\* JavaScript's undefined: a value that is no string of the model
Undefined == <<"<undefined>">>

\* a || b on strings and undefined
OrElse(a, b) == IF a = Undefined \/ a = <<>> THEN b ELSE a

\* the hexadecimal characters of one 32-byte word
WordHexLen == 64
\* "0x" followed by one word
Bytes32Len == 66
\* hexadecimal characters of a word that precede the 20-byte address
AddressOffset == 24

ZeroWord == Prefix0x \o Rep("0", WordHexLen)

decodeBytes32(wordHex) ==
    IF wordHex = Undefined \/ ~startsWith(wordHex, Prefix0x) \/ Len(wordHex) # Bytes32Len
    THEN wordHex
    ELSE toLowerCase(wordHex)

decodeUint(wordHex) ==
    LET hx == IF startsWith(wordHex, Prefix0x) THEN wordHex ELSE Prefix0x \o wordHex
    IN  BigIntOf(hx)

RECURSIVE SplitFrom(_, _)
SplitFrom(hex, i) ==
    IF i >= Len(hex) THEN <<>>
    ELSE LET chunk == slice(hex, i, i + WordHexLen)
         IN  (IF Len(chunk) = WordHexLen THEN <<Prefix0x \o chunk>> ELSE <<>>)
             \o SplitFrom(hex, i + WordHexLen)

splitWords(dataHex) ==
    LET hx == IF startsWith(dataHex, Prefix0x) THEN slice(dataHex, 2, Len(dataHex)) ELSE dataHex
    IN  SplitFrom(hx, 0)

decodeAddressFromWord(wordHex) ==
    LET hx == IF startsWith(wordHex, Prefix0x) THEN slice(wordHex, 2, Len(wordHex)) ELSE wordHex
    IN  Prefix0x \o slice(hx, AddressOffset, Len(hx))

\* words[k] of a JavaScript array (0-based), undefined past its end
WordAt(words, k) == IF k + 1 <= Len(words) THEN words[k + 1] ELSE Undefined

\* a record whose topics field is undefined: an array no ledger returns
NoTopics == <<Undefined>>

\* l.topics?.[k]
TopicAt(l, k) ==
    IF l.topics = NoTopics THEN Undefined
    ELSE IF k + 1 <= Len(l.topics) THEN l.topics[k + 1] ELSE Undefined

\* The signature hashes topic0(sig): keccak256 of the four event signatures,
\* lower-cased.  The hash function is the ledger's; the model uses four
\* distinct 32-byte values.
tCidAnchored == Prefix0x \o Rep("c", WordHexLen)
tDocAnchored == Prefix0x \o Rep("d", WordHexLen)
tProcessCreated == Prefix0x \o Rep("a", WordHexLen)
tProcessStatusChanged == Prefix0x \o Rep("b", WordHexLen)

\* mutant: a record of an unknown signature is taken for a ProcessCreated
KindOfWithDefault(t0) ==
    CASE t0 = toLowerCase(tCidAnchored) -> "CidAnchored"
      [] t0 = toLowerCase(tDocAnchored) -> "DocumentAnchored"
      [] t0 = toLowerCase(tProcessStatusChanged) -> "ProcessStatusChanged"
      [] OTHER -> "ProcessCreated"

\* the chain of `if (t0 === t<Kind>.toLowerCase())` tests: the variant the
\* lower-cased first topic selects, "none" when it is no known signature hash
KindOf(t0) ==
    CASE t0 = toLowerCase(tCidAnchored) -> "CidAnchored"
      [] t0 = toLowerCase(tDocAnchored) -> "DocumentAnchored"
      [] t0 = toLowerCase(tProcessCreated) -> "ProcessCreated"
      [] t0 = toLowerCase(tProcessStatusChanged) -> "ProcessStatusChanged"
      [] OTHER -> "none"

\* mutant: the entity-id filter is missing
ProductMatchesAlways(topicProduct, productId) == TRUE

\* the negation of `if (topicProduct !== productId.toLowerCase()) continue`
ProductMatches(topicProduct, productId) == topicProduct = toLowerCase(productId)

\* the body of the branch of the variant kind, given the values its
\* statements compute: the event, or "throw" when BigInt raised a SyntaxError
\* on a value the branch converts
DecodeVariant(l, productId, kind, words, bn, li, u0, u1) ==
    IF kind = "CidAnchored" THEN
        IF u1 = Thrown \/ bn = Thrown \/ li = Thrown THEN [res |-> "throw"]
        ELSE [res |-> "event",
              ev |-> [kind |-> "CidAnchored", contract |-> "CidRollup",
                      blockNumber |-> bn, logIndex |-> li,
                      txHash |-> l.transactionHash, productId |-> productId,
                      stepId |-> decodeBytes32(TopicAt(l, 2)),
                      orgIdHash |-> decodeBytes32(TopicAt(l, 3)),
                      cidHash |-> decodeBytes32(OrElse(WordAt(words, 0), Prefix0x)),
                      stepType |-> u1,
                      actor |-> decodeAddressFromWord(OrElse(WordAt(words, 2), ZeroWord))]]
    ELSE IF kind = "DocumentAnchored" THEN
        IF u1 = Thrown \/ bn = Thrown \/ li = Thrown THEN [res |-> "throw"]
        ELSE [res |-> "event",
              ev |-> [kind |-> "DocumentAnchored", contract |-> "DocumentRegistry",
                      blockNumber |-> bn, logIndex |-> li,
                      txHash |-> l.transactionHash, productId |-> productId,
                      stepId |-> decodeBytes32(TopicAt(l, 2)),
                      orgIdHash |-> decodeBytes32(TopicAt(l, 3)),
                      cidHash |-> decodeBytes32(OrElse(WordAt(words, 0), Prefix0x)),
                      docType |-> u1,
                      actor |-> decodeAddressFromWord(OrElse(WordAt(words, 2), ZeroWord))]]
    ELSE IF kind = "ProcessCreated" THEN
        IF bn = Thrown \/ li = Thrown THEN [res |-> "throw"]
        ELSE [res |-> "event",
              ev |-> [kind |-> "ProcessCreated", contract |-> "ProcessManager",
                      blockNumber |-> bn, logIndex |-> li,
                      txHash |-> l.transactionHash, productId |-> productId,
                      orgIdHash |-> decodeBytes32(TopicAt(l, 2))]]
    ELSE IF kind = "ProcessStatusChanged" THEN
        IF u0 = Thrown \/ u1 = Thrown \/ bn = Thrown \/ li = Thrown THEN [res |-> "throw"]
        ELSE [res |-> "event",
              ev |-> [kind |-> "ProcessStatusChanged", contract |-> "ProcessManager",
                      blockNumber |-> bn, logIndex |-> li,
                      txHash |-> l.transactionHash, productId |-> productId,
                      orgIdHash |-> decodeBytes32(TopicAt(l, 2)),
                      previousStatus |-> u0, newStatus |-> u1,
                      actor |-> decodeAddressFromWord(OrElse(WordAt(words, 2), ZeroWord))]]
    ELSE [res |-> "skip"]

\* mutant: the event is stamped with the entity-id topic of its record
DecodeWordsTopicId(l, productId, kind, words) ==
    IF kind = "none" THEN [res |-> "skip"]
    ELSE DecodeVariant(l, OrElse(TopicAt(l, 1), <<>>), kind, words,
                       hexToBigInt(l.blockNumber), hexToBigInt(l.logIndex),
                       decodeUint(OrElse(WordAt(words, 0), <<"0", "x", "0">>)),
                       decodeUint(OrElse(WordAt(words, 1), <<"0", "x", "0">>)))

\* the branch the first topic selects, with the words of the data blob
DecodeWords(l, productId, kind, words) ==
    IF kind = "none" THEN [res |-> "skip"]
    ELSE DecodeVariant(l, productId, kind, words,
                       hexToBigInt(l.blockNumber), hexToBigInt(l.logIndex),
                       decodeUint(OrElse(WordAt(words, 0), <<"0", "x", "0">>)),
                       decodeUint(OrElse(WordAt(words, 1), <<"0", "x", "0">>)))

\* One iteration of decodeLogsToEvents' loop over a log l:
\*   [res |-> "skip"]            the record yields no event
\*   [res |-> "event", ev |-> e] the record yields e
\*   [res |-> "throw"]           BigInt raised a SyntaxError
DecodeLog(l, productId) ==
    IF ~ProductMatches(toLowerCase(OrElse(TopicAt(l, 1), <<>>)), productId)
    THEN [res |-> "skip"]
    ELSE DecodeWords(l, productId, KindOf(toLowerCase(OrElse(TopicAt(l, 0), <<>>))),
                     splitWords(l.data))

RECURSIVE DecodeFrom(_, _, _)
\* the loop after the iteration over the first of logs gave d
DecodeRest(logs, productId, events, d) ==
    IF d.res = "throw" THEN [threw |-> TRUE, events |-> <<>>]
    ELSE DecodeFrom(Tail(logs), productId,
                    IF d.res = "event" THEN Append(events, d.ev) ELSE events)

\* for (const l of logs) over the logs left, events holding those pushed so far
DecodeFrom(logs, productId, events) ==
    IF logs = <<>> THEN [threw |-> FALSE, events |-> events]
    ELSE DecodeRest(logs, productId, events, DecodeLog(Head(logs), productId))

\* decodeLogsToEvents: the events of a batch in the batch's order, or threw
\* when decoding one of its records raised an error (no event list is returned)
decodeLogsToEvents(logs, productId) == DecodeFrom(logs, productId, <<>>)

(***************************************************************************)
(* The timeline merger: sortEvents                                         *)
(***************************************************************************)
\* the comparator of sortEvents and of main's events.sort
CompareEvents(a, b) ==
    IF a.blockNumber # b.blockNumber THEN (IF a.blockNumber < b.blockNumber THEN 0 - 1 ELSE 1)
    ELSE IF a.logIndex # b.logIndex THEN (IF a.logIndex < b.logIndex THEN 0 - 1 ELSE 1)
    ELSE 0

\* e placed after the last element of the sorted list that does not follow it
InsertSorted(sorted, e) ==
    LET k == Cardinality({i \in 1..Len(sorted) : CompareEvents(sorted[i], e) <= 0})
    IN  SubSeq(sorted, 1, k) \o <<e>> \o SubSeq(sorted, k + 1, Len(sorted))

RECURSIVE SortFrom(_, _)
SortFrom(events, sorted) ==
    IF events = <<>> THEN sorted
    ELSE SortFrom(Tail(events), InsertSorted(sorted, Head(events)))

\* Array.prototype.sort with the comparator: a stable sort
sortEvents(events) == SortFrom(events, <<>>)

(***************************************************************************)
(* The ledger: the log records the remote query service can return.       *)
(* A record is an RpcLog {address, topics, data, blockNumber,              *)
(* transactionHash, logIndex}; the state holds indices into LogTable.      *)
(***************************************************************************)
Pid == Prefix0x \o Rep("f", WordHexLen)
PidUpper == Prefix0x \o Rep("F", WordHexLen)
OtherPid == Prefix0x \o Rep("9", WordHexLen)
\* CidBatchSubmitted(address,uint256): a signature the decoder does not know
tCidBatchSubmitted == Prefix0x \o Rep("e", WordHexLen)

StepIdW == Prefix0x \o Rep("5", WordHexLen)
OrgIdW == Prefix0x \o Rep("6", WordHexLen)
CidHashW == Rep("A", WordHexLen)
ActorW == Rep("0", AddressOffset) \o Rep("7", WordHexLen - AddressOffset)
UintW(n) == Rep("0", WordHexLen - 1) \o <<HexDigits[n + 1]>>
BadW == Rep("0", WordHexLen - 1) \o <<"z">>

Tx(c) == Prefix0x \o Rep(c, WordHexLen)

MkLog(addr, topics, data, bn, tx, li) ==
    [address |-> addr, topics |-> topics, data |-> Prefix0x \o data,
     blockNumber |-> toHexQty(bn), transactionHash |-> tx, logIndex |-> toHexQty(li)]

CidLog(pid, stepType, bn, tx, li) ==
    MkLog("CidRollup", <<tCidAnchored, pid, StepIdW, OrgIdW>>,
          CidHashW \o UintW(stepType) \o ActorW, bn, tx, li)

LogTable ==
    << CidLog(Pid, 1, 100, Tx("1"), 0),                                     \* 1
       CidLog(Pid, 2, 100, Tx("1"), 1),                                     \* 2
       CidLog(Pid, 3, 100, Tx("1"), 2),                                     \* 3
       MkLog("CidRollup", <<tCidBatchSubmitted, Pid>>, UintW(3),
             100, Tx("1"), 3),                                              \* 4
       CidLog(Pid, 4, 101, Tx("a"), 0),                                     \* 5
       CidLog(PidUpper, 5, 101, Tx("a"), 1),                                \* 6
       MkLog("ProcessManager", <<toLowerCase(tProcessCreated), Pid, OrgIdW>>,
             <<>>, 101, Tx("3"), 2),                                        \* 7
       MkLog("ProcessManager",
             <<Prefix0x \o Rep("B", WordHexLen), Pid, OrgIdW>>,
             UintW(1) \o UintW(2) \o ActorW, 101, Tx("3"), 3),             \* 8
       CidLog(Pid, 6, 102, Tx("4"), 0),                                     \* 9
       MkLog("DocumentRegistry", <<tDocAnchored, Pid, StepIdW, OrgIdW>>,
             CidHashW \o UintW(2) \o ActorW, 103, Tx("5"), 0),             \* 10
       CidLog(OtherPid, 1, 103, Tx("6"), 1),                                \* 11
       MkLog("CidRollup", NoTopics, <<>>, 103, Tx("6"), 2),                 \* 12
       MkLog("CidRollup", <<>>, <<>>, 103, Tx("6"), 3),                     \* 13
       MkLog("DocumentRegistry", <<tDocAnchored, Pid, StepIdW, OrgIdW>>,
             CidHashW \o BadW \o ActorW, 103, Tx("6"), 4),                 \* 14
       MkLog("CidRollup", <<tCidAnchored, Pid, StepIdW, OrgIdW>>,
             CidHashW \o Rep("0", 3), 103, Tx("6"), 5),                     \* 15
       MkLog("CidRollup", <<tCidAnchored, Pid, StepIdW, OrgIdW>>,
             <<>>, 103, Tx("6"), 6)                                         \* 16
    >>

LogIds == 1..Len(LogTable)
LogsOf(ids) == [i \in 1..Len(ids) |-> LogTable[ids[i]]]

(***************************************************************************)
(* The chunked range scanner: ethGetLogsChunkedWithProgress                *)
(***************************************************************************)
\* the error phrases looksLikeRangeLimitError searches for
RangeLimitPhrases ==
    { <<"b","l","o","c","k"," ","r","a","n","g","e">>,
      <<"e","t","h","_","g","e","t","l","o","g","s"," ","r","e","q","u","e","s","t","s"," ","w","i","t","h"," ","u","p"," ","t","o">>,
      <<"t","o","o"," ","m","a","n","y">>,
      <<"e","x","c","e","e","d">>,
      <<"l","i","m","i","t">>,
      <<"m","a","x">>,
      <<"r","e","q","u","e","s","t"," ","s","i","z","e">>,
      <<"4","2","9">> }

looksLikeRangeLimitError(msg) ==
    \E m \in {toLowerCase(msg)} : \E ph \in RangeLimitPhrases : includes(m, ph)

\* Messages of the errors rpc() raises for a failed eth_getLogs request:
\* `RPC error (eth_getLogs): <body>` and `RPC HTTP <status>: <body>`.
ErrBlockRange == <<"R","P","C"," ","e","r","r","o","r"," ","(","e","t","h","_","g","e","t","L","o","g","s",")",":"," ","B","l","o","c","k"," ","R","a","n","g","e">>
ErrHttp500 == <<"R","P","C"," ","H","T","T","P"," ","5","0","0",":"," ">>
ErrorMessages == {ErrBlockRange, ErrHttp500}

\* lastErr = null
NoErr == <<>>

\* requiredStepTypes of main
requiredStepTypes == {1, 2, 3, 4, 5, 6}

\* The three scans main starts: filterBase and earlyStopCheck of each label.
Labels == {"CidRollup", "DocumentRegistry", "ProcessManager"}
FilterSigs(label) ==
    CASE label = "CidRollup" -> {tCidAnchored}
      [] label = "DocumentRegistry" -> {tDocAnchored}
      [] label = "ProcessManager" -> {tProcessCreated, tProcessStatusChanged}

\* eth_getLogs of the remote query service: the records of the ledger whose
\* address, first topic and entity-id topic match the filter and whose block
\* lies in the inclusive range [fromBlock, toBlock], in ledger order.
GetLogs(filter) ==
    LET lo == hexToBigInt(filter.fromBlock)
        hi == hexToBigInt(filter.toBlock)
        Match(i) ==
            LET l == LogTable[i]
            IN  /\ l.address = filter.address
                /\ toLowerCase(OrElse(TopicAt(l, 0), <<>>)) \in filter.sigs
                /\ toLowerCase(OrElse(TopicAt(l, 1), <<>>)) = toLowerCase(filter.productId)
                /\ lo <= hexToBigInt(l.blockNumber)
                /\ hexToBigInt(l.blockNumber) <= hi
    IN  SelectSeq([i \in LogIds |-> i], Match)

\* Number(decodeUint(words[1] || "0x0")) of each record of the ledger, words
\* being splitWords(l.data)
StepTypeOfLog ==
    [i \in LogIds |->
        decodeUint(OrElse(WordAt(splitWords(LogTable[i].data), 1), <<"0","x","0">>))]

RECURSIVE CidStopFrom(_, _)
\* the loop of cidEarlyStop over the accumulated records, `seen` so far
CidStopFrom(ids, seen) ==
    IF ids = <<>> THEN "go"
    ELSE LET stepType == StepTypeOfLog[Head(ids)]
             seen2 == IF stepType \in requiredStepTypes THEN seen \cup {stepType} ELSE seen
         IN  IF stepType = Thrown THEN "throw"
             ELSE IF Cardinality(seen2) = Cardinality(requiredStepTypes) THEN "stop"
             ELSE CidStopFrom(Tail(ids), seen2)

\* mutant: the predicate of the process scan, any record stops the scan
cidEarlyStopAnyRecord(earlyStop, ids) == IF earlyStop /\ Len(ids) > 0 THEN "stop" ELSE "go"

\* "stop" (true), "go" (false) or "throw" (decodeUint raised)
cidEarlyStop(earlyStop, ids) == IF ~earlyStop THEN "go" ELSE CidStopFrom(ids, {})

procEarlyStop(earlyStop, ids) == IF earlyStop /\ Len(ids) > 0 THEN "stop" ELSE "go"

\* earlyStopCheck && earlyStopCheck(all) for the scan of each label
EarlyStopCheck(label, earlyStop, ids) ==
    CASE label = "CidRollup" -> cidEarlyStop(earlyStop, ids)
      [] label = "ProcessManager" -> procEarlyStop(earlyStop, ids)
      [] OTHER -> "go"

\* ---- bounds of the scanner's inputs ----
MaxRequestsBound == 4
MaxCandidates == 2

RpcUrls == <<"rpcA", "rpcB", "rpcC", "rpcD">>
CandidateLists == {SubSeq(RpcUrls, 1, n) : n \in 0..MaxCandidates}
BlockRanges == {<<100, 199>>, <<100, 120>>, <<100, 103>>}
ChunkInputs == {0, 2, 100}

VARIABLES
    args,   \* the scan parameters main derives from the command line
    scan,   \* label -> the locals of that call of ethGetLogsChunkedWithProgress
    dec,    \* a call of decodeLogsToEvents followed by sortEvents
    hp,     \* the parameters of simulateAuditQueryLatency
    h,      \* the locals of simulateAuditQueryLatency and of its current run
    st,     \* a call of percentile followed by a call of summarize
    mn,     \* the locals of main's receipt-based reconstruction
    rt,     \* a call of one of the retry helpers of the benchmark scripts
    au,     \* the locals of main of the scan-based reconstruction
    pm      \* the storage of the ProcessManager contract and its last call

vars == <<args, scan, dec, hp, h, st, mn, rt, au, pm>>
scanVars == <<args, scan>>
harnessVars == <<hp, h>>

\* the components that take no part in a specification
NoScan == args = [fromBlock |-> 0] /\ scan = <<>>
NoDec == dec = [pc |-> "unused"]
NoHarness == hp = [txs |-> <<>>] /\ h = [pc |-> "unused"]
NoStats == st = [pc |-> "unused"]
NoMain == mn = [pc |-> "unused"]
NoRetry == rt = [pc |-> "unused"]
NoAudit == au = [pc |-> "unused"]
NoProcess == pm = [pc |-> "unused"]

\* the locals of a call before its first statement has run
ScanEntry ==
    [pc |-> "entry", chunkSize |-> 0, start |-> 0, end |-> 0, reqCount |-> 0,
     chunkCount |-> 0, all |-> <<>>, lastErr |-> NoErr, success |-> FALSE,
     ep |-> 0, result |-> <<>>,
     why |-> "",      \* history: why the loop was left
     errs |-> <<>>,   \* history: the errors lastErr has held for this chunk
     reqs |-> <<>>]   \* history: every eth_getLogs request issued, in order

ScanArgs ==
    { [fromBlock |-> r[1], toBlock |-> r[2], chunk |-> c, maxRequests |-> m,
       earlyStop |-> e, rpcCandidates |-> cands, productId |-> Pid] :
      r \in BlockRanges, c \in ChunkInputs, m \in 1..MaxRequestsBound,
      e \in BOOLEAN, cands \in CandidateLists }

InitScan ==
    /\ args \in ScanArgs
    /\ \E l \in Labels : scan = [s \in {l} |-> ScanEntry]
    /\ NoDec
    /\ NoHarness
    /\ NoStats
    /\ NoMain
    /\ NoRetry
    /\ NoAudit
    /\ NoProcess

\* mutant: chunkSize is one variable shared by the scans
SetSharedChunk(s, r) ==
    scan' = [t \in DOMAIN scan |->
                IF t = s THEN r
                ELSE IF scan[t].pc \in {"entry", "returned", "thrown"} THEN scan[t]
                ELSE [scan[t] EXCEPT !.chunkSize = r.chunkSize]]

Set(s, r) == scan' = [scan EXCEPT ![s] = r]

\* mutant: the window is one block too long
ChunkEndOffByOne(start, chunkSize, toBlock) == Min(toBlock, start + chunkSize)

\* const end = Math.min(toBlock, start + chunkSize - 1)
ChunkEnd(start, chunkSize, toBlock) == Min(toBlock, start + chunkSize - 1)

\* mutant: the chunk size is decremented, not halved
HalvedChunkDecrement(chunkSize) == Max(1, chunkSize - 1)

\* const newChunk = Math.max(1, Math.floor(chunkSize / 2))
HalvedChunk(chunkSize) == Max(1, chunkSize \div 2)

\* mutant: the ceiling test is strict
CeilingReachedStrict(reqCount, maxRequests) == reqCount > maxRequests

\* if (reqCount >= maxRequests)
CeilingReached(reqCount, maxRequests) == reqCount >= maxRequests

\* mutant: the chunkSize > 1 test is dropped
ShouldHalveAnySize(chunkSize, msg) == looksLikeRangeLimitError(msg)

\* if (chunkSize > 1 && looksLikeRangeLimitError(msg))
ShouldHalve(chunkSize, msg) == chunkSize > 1 /\ looksLikeRangeLimitError(msg)

\* the filter of the request for [start, end]
FilterFor(label, start, end) ==
    [address |-> label, sigs |-> FilterSigs(label), productId |-> args.productId,
     fromBlock |-> toHexQty(start), toBlock |-> toHexQty(end)]

\* mutant: the locals are initialised without the guard on rpcCandidates
EnterUnchecked(s) ==
    /\ s \in DOMAIN scan
    /\ scan[s].pc = "entry"
    /\ Set(s, [scan[s] EXCEPT !.pc = "loop",
                               !.chunkSize = Max(1, args.chunk),
                               !.start = args.fromBlock])
    /\ UNCHANGED <<args, dec, harnessVars, st, mn, rt, au, pm>>

\* the guard on rpcCandidates and the initialisation of the locals
Enter(s) ==
    /\ s \in DOMAIN scan
    /\ scan[s].pc = "entry"
    /\ IF Len(args.rpcCandidates) = 0
       THEN Set(s, [scan[s] EXCEPT !.pc = "thrown", !.why = "nocandidates"])
       ELSE Set(s, [scan[s] EXCEPT !.pc = "loop",
                                   !.chunkSize = Max(1, args.chunk),
                                   !.start = args.fromBlock])
    /\ UNCHANGED <<args, dec, harnessVars, st, mn, rt, au, pm>>

\* while (start <= toBlock) { if (reqCount >= maxRequests) break; const end = ...
LoopHead(s) ==
    LET a == scan[s]
    IN  /\ s \in DOMAIN scan
        /\ a.pc = "loop"
        /\ IF ~(a.start <= args.toBlock)
           THEN Set(s, [a EXCEPT !.pc = "return", !.why = "covered"])
           ELSE IF CeilingReached(a.reqCount, args.maxRequests)
           THEN Set(s, [a EXCEPT !.pc = "return", !.why = "ceiling"])
           ELSE Set(s, [a EXCEPT !.pc = "request",
                                 !.end = ChunkEnd(a.start, a.chunkSize, args.toBlock),
                                 !.lastErr = NoErr, !.success = FALSE, !.ep = 1,
                                 !.errs = <<>>])
        /\ UNCHANGED <<args, dec, harnessVars, st, mn, rt, au, pm>>

\* reqCount++; await rpc(rpcUrl, "eth_getLogs", [filter])  -- the request is sent
Request(s) ==
    LET a == scan[s]
    IN  /\ s \in DOMAIN scan
        /\ a.pc = "request"
        /\ Set(s, [a EXCEPT !.pc = "await",
                            !.reqCount = a.reqCount + 1,
                            !.reqs = Append(a.reqs,
                                [start |-> a.start, end |-> a.end, chunkSize |-> a.chunkSize,
                                 ep |-> a.ep, url |-> args.rpcCandidates[a.ep],
                                 outcome |-> "pending", res |-> <<>>])])
        /\ UNCHANGED <<args, dec, harnessVars, st, mn, rt, au, pm>>

\* mutant: no break after a success, the next candidate is queried too
RespondOkNoBreak(s) ==
    LET a == scan[s]
        res == GetLogs(FilterFor(s, a.start, a.end))
        more == a.ep < Len(args.rpcCandidates)
    IN  /\ s \in DOMAIN scan
        /\ a.pc = "await"
        /\ Set(s, [a EXCEPT !.pc = IF more THEN "request" ELSE "decide",
                            !.ep = IF more THEN a.ep + 1 ELSE a.ep,
                            !.all = a.all \o res,
                            !.lastErr = NoErr, !.success = TRUE, !.errs = <<>>,
                            !.reqs[Len(a.reqs)].outcome = "ok",
                            !.reqs[Len(a.reqs)].res = res])
        /\ UNCHANGED <<args, dec, harnessVars, st, mn, rt, au, pm>>

\* the endpoint answers: all.push(...res); lastErr = null; success = true; break
RespondOk(s) ==
    LET a == scan[s]
    IN  /\ s \in DOMAIN scan
        /\ a.pc = "await"
        /\ \E res \in {GetLogs(FilterFor(s, a.start, a.end))} :
              Set(s, [a EXCEPT !.pc = "decide",
                              !.all = a.all \o res,
                              !.lastErr = NoErr, !.success = TRUE, !.errs = <<>>,
                              !.reqs[Len(a.reqs)].outcome = "ok",
                              !.reqs[Len(a.reqs)].res = res])
        /\ UNCHANGED <<args, dec, harnessVars, st, mn, rt, au, pm>>

\* mutant: lastErr keeps the first error of the chunk
RespondErrKeepFirst(s) ==
    LET a == scan[s]
    IN  /\ s \in DOMAIN scan
        /\ a.pc = "await"
        /\ \E e \in ErrorMessages :
             Set(s, [a EXCEPT !.pc = IF a.ep < Len(args.rpcCandidates)
                                     THEN "request" ELSE "decide",
                              !.ep = IF a.ep < Len(args.rpcCandidates)
                                     THEN a.ep + 1 ELSE a.ep,
                              !.lastErr = IF a.lastErr = NoErr THEN e ELSE a.lastErr,
                              !.errs = Append(a.errs, e),
                              !.reqs[Len(a.reqs)].outcome = "err"])
        /\ UNCHANGED <<args, dec, harnessVars, st, mn, rt, au, pm>>

\* the endpoint fails: catch (e) { lastErr = e }, then the next candidate if any
RespondErr(s) ==
    LET a == scan[s]
    IN  /\ s \in DOMAIN scan
        /\ a.pc = "await"
        /\ \E e \in ErrorMessages :
             Set(s, [a EXCEPT !.pc = IF a.ep < Len(args.rpcCandidates)
                                     THEN "request" ELSE "decide",
                              !.ep = IF a.ep < Len(args.rpcCandidates)
                                     THEN a.ep + 1 ELSE a.ep,
                              !.lastErr = e,
                              !.errs = Append(a.errs, e),
                              !.reqs[Len(a.reqs)].outcome = "err"])
        /\ UNCHANGED <<args, dec, harnessVars, st, mn, rt, au, pm>>

\* if (!success) { halve and continue, or throw }
OnFailure(s) ==
    LET a == scan[s]
    IN  /\ s \in DOMAIN scan
        /\ a.pc = "decide"
        /\ ~a.success
        /\ IF ShouldHalve(a.chunkSize, a.lastErr)
           THEN Set(s, [a EXCEPT !.pc = "loop", !.chunkSize = HalvedChunk(a.chunkSize),
                                 !.errs = <<>>])
           ELSE Set(s, [a EXCEPT !.pc = "thrown", !.why = "fatal"])
        /\ UNCHANGED <<args, dec, harnessVars, st, mn, rt, au, pm>>

\* mutant: the predicate is given the last chunk's records only
EarlyStopInputLastChunk(a) == a.reqs[Len(a.reqs)].res

\* earlyStopCheck(all): the predicate is given everything accumulated so far
EarlyStopInput(a) == a.all

\* mutant: the cursor skips the block after the chunk
AfterSuccessSkip(a, stop) ==
    [a EXCEPT !.start = a.end + 2,
              !.chunkCount = a.chunkCount + 1,
              !.pc = CASE stop = "stop" -> "return"
                       [] stop = "throw" -> "thrown"
                       [] OTHER -> "loop",
              !.why = CASE stop = "stop" -> "early"
                        [] stop = "throw" -> "predicate"
                        [] OTHER -> a.why]

\* the locals after a successful chunk, stop being what the early-stop check
\* gave: start = end + 1; chunkCount++; return, throw or go on
AfterSuccess(a, stop) ==
    [a EXCEPT !.start = a.end + 1,
              !.chunkCount = a.chunkCount + 1,
              !.pc = CASE stop = "stop" -> "return"
                       [] stop = "throw" -> "thrown"
                       [] OTHER -> "loop",
              !.why = CASE stop = "stop" -> "early"
                        [] stop = "throw" -> "predicate"
                        [] OTHER -> a.why]

\* mutant: a successful chunk restores the chunk size the scan began with
OnSuccessRegrow(s) ==
    /\ s \in DOMAIN scan
    /\ scan[s].pc = "decide"
    /\ scan[s].success
    /\ \E stop \in {EarlyStopCheck(s, args.earlyStop, EarlyStopInput(scan[s]))} :
          Set(s, [AfterSuccess(scan[s], stop) EXCEPT !.chunkSize = Max(1, args.chunk)])
    /\ UNCHANGED <<args, dec, harnessVars, st, mn, rt, au, pm>>

\* start = end + 1; chunkCount++; the early-stop check; the inter-chunk sleep
OnSuccess(s) ==
    /\ s \in DOMAIN scan
    /\ scan[s].pc = "decide"
    /\ scan[s].success
    /\ \E stop \in {EarlyStopCheck(s, args.earlyStop, EarlyStopInput(scan[s]))} :
          Set(s, AfterSuccess(scan[s], stop))
    /\ UNCHANGED <<args, dec, harnessVars, st, mn, rt, au, pm>>

\* logProgress(true); return all
Return(s) ==
    LET a == scan[s]
    IN  /\ s \in DOMAIN scan
        /\ a.pc = "return"
        /\ Set(s, [a EXCEPT !.pc = "returned", !.result = a.all])
        /\ UNCHANGED <<args, dec, harnessVars, st, mn, rt, au, pm>>

NextScan ==
    \/ \E s \in Labels : Enter(s)
    \/ \E s \in Labels : LoopHead(s)
    \/ \E s \in Labels : Request(s)
    \/ \E s \in Labels : RespondOk(s)
    \/ \E s \in Labels : RespondErr(s)
    \/ \E s \in Labels : OnFailure(s)
    \/ \E s \in Labels : OnSuccess(s)
    \/ \E s \in Labels : Return(s)

SpecScan == InitScan /\ [][NextScan]_vars

(***************************************************************************)
(* Properties of the scanner                                               *)
(***************************************************************************)
RECURSIVE OkRecords(_)
\* the records returned by the successful requests of a history, in order
OkRecords(reqs) ==
    IF reqs = <<>> THEN <<>>
    ELSE (IF Head(reqs).outcome = "ok" THEN Head(reqs).res ELSE <<>>) \o OkRecords(Tail(reqs))

\* request i+1 of history r is the retry that follows the failure of chunk
\* request i on all endpoints (the scan went on after r[i] failed last)
RetryAfter(r, i) == r[i].outcome = "err" /\ r[i + 1].ep = 1

\* C2: when a chunk has failed on all endpoints with a range-limit error and
\* chunkSize > 1, the next step leaves the cursor start unchanged, sets chunkSize
\* to max(1, floor(chunkSize/2)) and appends nothing; a failed attempt appends
\* nothing; and the request issued next starts at the same start block.
C2_HalveKeepsCursor ==
    [][\A s \in DOMAIN scan :
        LET a == scan[s]
            b == scan'[s]
        IN  /\ (a.pc = "decide" /\ ~a.success /\ a.ep = Len(args.rpcCandidates)
                /\ looksLikeRangeLimitError(a.lastErr) /\ a.chunkSize > 1 /\ b # a)
               => /\ b.start = a.start
                  /\ b.chunkSize = Max(1, a.chunkSize \div 2)
                  /\ b.all = a.all
                  /\ b.pc = "loop"
            /\ (a.pc = "await" /\ b.reqs[Len(b.reqs)].outcome = "err") => b.all = a.all
            /\ (Len(b.reqs) = Len(a.reqs) + 1 /\ Len(a.reqs) > 0
                /\ RetryAfter(b.reqs, Len(a.reqs)))
               => /\ b.reqs[Len(b.reqs)].start = a.reqs[Len(a.reqs)].start
                  /\ b.reqs[Len(b.reqs)].chunkSize
                       = Max(1, a.reqs[Len(a.reqs)].chunkSize \div 2)
                  /\ b.all = OkRecords(a.reqs)
      ]_vars

\* C2 witness: a request was retried from the same start block after a halving
C2_Witness ==
    \E s \in DOMAIN scan :
        \E i \in 1..(Len(scan[s].reqs) - 1) :
            /\ RetryAfter(scan[s].reqs, i)
            /\ scan[s].reqs[i].chunkSize > 1
            /\ scan[s].reqs[i + 1].start = scan[s].reqs[i].start
            /\ scan[s].reqs[i + 1].chunkSize < scan[s].reqs[i].chunkSize

\* C3 as stated: after a range-too-large failure of a request with chunkSize=100
\* the next attempt targets the identical range (same first and last block)
\* with chunkSize=50.
C3_IdenticalRange ==
    \A s \in DOMAIN scan :
        LET r == scan[s].reqs
        IN  \A i \in 1..(Len(r) - 1) :
                (r[i].chunkSize = 100 /\ RetryAfter(r, i))
                => /\ r[i + 1].start = r[i].start
                   /\ r[i + 1].end = r[i].end
                   /\ r[i + 1].chunkSize = 50

\* C3 amended: after a range-too-large failure of a request with chunkSize=100
\* the next attempt starts at the same first block with chunkSize=50, and its
\* last block is min(toBlock, first + 49): the failed range is not repeated
\* unless it held at most 50 blocks.
C3_SameStartHalvedWindow ==
    \A s \in DOMAIN scan :
        LET r == scan[s].reqs
        IN  \A i \in 1..(Len(r) - 1) :
                (r[i].chunkSize = 100 /\ RetryAfter(r, i))
                => /\ r[i + 1].start = r[i].start
                   /\ r[i + 1].chunkSize = 50
                   /\ r[i + 1].end = Min(args.toBlock, r[i].start + 49)
                   /\ (r[i + 1].end = r[i].end <=> r[i].end - r[i].start + 1 <= 50)

\* C3 witness: the request for [100,199] with chunkSize=100 failed and was retried
C3_Witness ==
    \E s \in DOMAIN scan :
        LET r == scan[s].reqs
        IN  \E i \in 1..(Len(r) - 1) :
                /\ r[i].chunkSize = 100 /\ r[i].start = 100 /\ r[i].end = 199
                /\ RetryAfter(r, i)
                /\ r[i + 1].start = 100 /\ r[i + 1].end = 149

\* C4 as stated: the number of range-query requests issued, counting every
\* per-endpoint attempt, never exceeds maxRequests.
C4_RequestCeiling ==
    \A s \in DOMAIN scan :
        /\ scan[s].reqCount <= args.maxRequests
        /\ Len(scan[s].reqs) <= args.maxRequests

\* C5: when the loop finds the request count at the ceiling while the cursor
\* has not passed toBlock, the scan issues no further request and returns
\* normally exactly the records of the chunks that succeeded so far.
C5_CeilingReturnsPartial ==
    [][\A s \in DOMAIN scan :
        LET a == scan[s]
            b == scan'[s]
        IN  /\ (a.pc = "loop" /\ a.start <= args.toBlock
                /\ a.reqCount >= args.maxRequests /\ b # a)
               => /\ b.pc = "return"
                  /\ b.why = "ceiling"
                  /\ b.reqs = a.reqs
            /\ (a.why = "ceiling" /\ b # a)
               => /\ b.pc = "returned"
                  /\ b.reqs = a.reqs
                  /\ b.result = OkRecords(a.reqs)
      ]_vars

\* C5 witness: a scan returned a non-empty partial result at the ceiling
C5_Witness ==
    \E s \in DOMAIN scan :
        /\ scan[s].pc = "returned"
        /\ scan[s].why = "ceiling"
        /\ scan[s].start <= args.toBlock
        /\ scan[s].result # <<>>
        /\ \E i \in 1..Len(scan[s].reqs) : scan[s].reqs[i].outcome = "err"

\* C6: after a successful chunk, if the early-stop predicate holds of all the
\* records accumulated so far, the scan issues no further request and returns
\* the accumulated records, whether or not start <= toBlock.
C6_EarlyStop ==
    [][\A s \in DOMAIN scan :
        LET a == scan[s]
            b == scan'[s]
        IN  /\ (a.pc = "decide" /\ a.success /\ b # a
                /\ EarlyStopCheck(s, args.earlyStop, OkRecords(a.reqs)) = "stop")
               => /\ b.pc = "return"
                  /\ b.why = "early"
                  /\ b.all = OkRecords(a.reqs)
                  /\ b.reqs = a.reqs
            /\ (a.why = "early" /\ b # a)
               => /\ b.pc = "returned"
                  /\ b.reqs = a.reqs
                  /\ b.result = OkRecords(a.reqs)
      ]_vars

\* C6 witness: the CidRollup scan stopped early on records accumulated over
\* several chunks, before the cursor passed toBlock
C6_Witness ==
    /\ "CidRollup" \in DOMAIN scan
    /\ scan["CidRollup"].pc = "returned"
    /\ scan["CidRollup"].why = "early"
    /\ scan["CidRollup"].start <= args.toBlock
    /\ scan["CidRollup"].chunkCount >= 2
    /\ scan["CidRollup"].reqs[Len(scan["CidRollup"].reqs)].res
         # scan["CidRollup"].result

\* C7: when a chunk has failed on every endpoint and halving does not apply
\* (the error is not range-limit, or chunkSize is 1), the scan ends thrown:
\* it returns no result and requests nothing more.
C7_FatalAbort ==
    [][\A s \in DOMAIN scan :
        LET a == scan[s]
            b == scan'[s]
        IN  /\ (a.pc = "decide" /\ ~a.success /\ a.ep = Len(args.rpcCandidates)
                /\ (~looksLikeRangeLimitError(a.lastErr) \/ a.chunkSize = 1) /\ b # a)
               => /\ b.pc = "thrown"
                  /\ b.reqs = a.reqs
            /\ a.pc = "thrown" => (b = a /\ a.result = <<>>)
      ]_vars

\* C7 witness: a scan with accumulated records aborted on a range-limit error
\* at chunkSize 1
C7_Witness ==
    \E s \in DOMAIN scan :
        /\ scan[s].pc = "thrown"
        /\ scan[s].why = "fatal"
        /\ scan[s].chunkSize = 1
        /\ looksLikeRangeLimitError(scan[s].lastErr)
        /\ scan[s].all # <<>>

\* C8: for each chunk the endpoints are tried in their configured order, the
\* first success ends the chunk (no later endpoint is asked for it), and the
\* accumulated records are exactly those of the successful requests.
C8_EndpointOrder ==
    \A s \in DOMAIN scan :
        LET r == scan[s].reqs
            n == Len(args.rpcCandidates)
        IN  /\ \A i \in 1..Len(r) :
                 /\ r[i].url = args.rpcCandidates[r[i].ep]
                 /\ \/ r[i].ep = 1
                    \/ /\ i > 1
                       /\ r[i - 1].outcome = "err"
                       /\ r[i - 1].ep = r[i].ep - 1
                       /\ r[i - 1].start = r[i].start
                       /\ r[i - 1].end = r[i].end
            /\ \A i \in 1..(Len(r) - 1) :
                 /\ r[i].outcome = "ok" => (r[i + 1].ep = 1 /\ r[i + 1].start = r[i].end + 1)
                 /\ (r[i].outcome = "err" /\ r[i].ep < n) => r[i + 1].ep = r[i].ep + 1
            /\ scan[s].all = OkRecords(r)

\* C8 witness: a chunk failed on the first endpoint, was answered by the second,
\* and the next chunk was requested from the first endpoint again
C8_Witness ==
    \E s \in DOMAIN scan :
        LET r == scan[s].reqs
        IN  \E i \in 1..(Len(r) - 2) :
                /\ r[i].ep = 1 /\ r[i].outcome = "err"
                /\ r[i + 1].ep = 2 /\ r[i + 1].outcome = "ok" /\ r[i + 1].res # <<>>
                /\ r[i + 2].ep = 1

(***************************************************************************)
(* The decoder and the merger on arbitrary batches of log records          *)
(***************************************************************************)
MaxBatch == 2

RECURSIVE SeqsUpTo(_, _)
\* the sequences of at most n elements of S
SeqsUpTo(S, n) ==
    IF n = 0 THEN {<<>>}
    ELSE LET shorter == SeqsUpTo(S, n - 1)
         IN  shorter \cup {Append(q, x) : q \in {r \in shorter : Len(r) = n - 1},
                                          x \in S}

Range(q) == {q[i] : i \in 1..Len(q)}
Distinct(q) == Cardinality(Range(q)) = Len(q)

\* the position on the chain of each record of the ledger
PosTable ==
    [i \in LogIds |-> <<hexToBigInt(LogTable[i].blockNumber),
                        hexToBigInt(LogTable[i].logIndex)>>]

\* the record an event was decoded from: log position is unique per chain
IdOf(ev) == CHOOSE i \in LogIds : PosTable[i] = <<ev.blockNumber, ev.logIndex>>
IdsOf(events) == [k \in 1..Len(events) |-> IdOf(events[k])]

\* what each record of the ledger decodes to for the entity Pid
DecodedTable == [id \in LogIds |-> DecodeLog(LogTable[id], Pid)]

\* the event of a record that yields one
EventOf(id, productId) ==
    IF productId = Pid THEN DecodedTable[id].ev
    ELSE DecodeLog(LogTable[id], productId).ev
EventsOf(ids, productId) == [k \in 1..Len(ids) |-> EventOf(ids[k], productId)]

ProductIds == {Pid, PidUpper, OtherPid}

InitDecode ==
    /\ \E b \in {q \in SeqsUpTo(LogIds, MaxBatch) : Distinct(q)}, p \in ProductIds :
          dec = [pc |-> "input", batch |-> b, productId |-> p,
                 events |-> <<>>, timeline |-> <<>>,
                 input |-> b,       \* history: the batch as it was handed over
                 twice |-> FALSE,   \* history: the batch has been decoded again
                 again |-> [threw |-> FALSE, events |-> <<>>]]
    /\ NoScan
    /\ NoHarness
    /\ NoStats
    /\ NoMain
    /\ NoRetry
    /\ NoAudit
    /\ NoProcess

\* mutant: the decoder takes the records out of the array it is given
DecodeDraining ==
    /\ dec.pc = "input"
    /\ LET r == decodeLogsToEvents(LogsOf(dec.batch), dec.productId)
       IN  dec' = IF r.threw THEN [dec EXCEPT !.pc = "thrown", !.batch = <<>>]
                  ELSE [dec EXCEPT !.pc = "decoded", !.events = IdsOf(r.events),
                                   !.batch = <<>>]
    /\ UNCHANGED <<scanVars, harnessVars, st, mn, rt, au, pm>>

\* const events = decodeLogsToEvents({ logs, productId, ... })
Decode ==
    /\ dec.pc = "input"
    /\ LET r == decodeLogsToEvents(LogsOf(dec.batch), dec.productId)
       IN  dec' = IF r.threw THEN [dec EXCEPT !.pc = "thrown"]
                  ELSE [dec EXCEPT !.pc = "decoded", !.events = IdsOf(r.events)]
    /\ UNCHANGED <<scanVars, harnessVars, st, mn, rt, au, pm>>

\* sortEvents(events)
Sort ==
    /\ dec.pc = "decoded"
    /\ dec' = [dec EXCEPT !.pc = "sorted",
                          !.timeline = IdsOf(sortEvents(EventsOf(dec.events, dec.productId)))]
    /\ UNCHANGED <<scanVars, harnessVars, st, mn, rt, au, pm>>

\* a second call of decodeLogsToEvents on the same array, as each run of the
\* harness makes on the receipts it holds
DecodeAgain ==
    /\ dec.pc \in {"sorted", "thrown"}
    /\ ~dec.twice
    /\ dec' = [dec EXCEPT !.twice = TRUE,
                          !.again = decodeLogsToEvents(LogsOf(dec.batch), dec.productId)]
    /\ UNCHANGED <<scanVars, harnessVars, st, mn, rt, au, pm>>

NextDecode ==
    \/ Decode
    \/ Sort
    \/ DecodeAgain

SpecDecode == InitDecode /\ [][NextDecode]_vars

(***************************************************************************)
(* Properties of the decoder                                               *)
(***************************************************************************)
KnownSignatures == {tCidAnchored, tDocAnchored, tProcessCreated, tProcessStatusChanged}

\* the first topic of l is absent or is none of the four signature hashes
\* (hashes are 32-byte values: their hex text is compared ignoring case)
UnknownSignature(l) ==
    \/ TopicAt(l, 0) = Undefined
    \/ \A k \in KnownSignatures : toLowerCase(TopicAt(l, 0)) # toLowerCase(k)

\* the second topic of l is absent or differs from the target ignoring case
OtherEntity(l, productId) ==
    \/ TopicAt(l, 1) = Undefined
    \/ toLowerCase(TopicAt(l, 1)) # toLowerCase(productId)

Decoded == dec.pc \in {"decoded", "sorted", "thrown"}

\* C9: a record whose first topic is none of the four known signature
\* hashes, a record without topics included, yields no event, and a batch
\* of such records decodes without raising an error
C9_UnknownSignatureSkipped ==
    Decoded =>
        /\ \A i \in 1..Len(dec.batch) :
              UnknownSignature(LogTable[dec.batch[i]]) => dec.batch[i] \notin Range(dec.events)
        /\ (\A i \in 1..Len(dec.batch) : UnknownSignature(LogTable[dec.batch[i]]))
              => dec.pc # "thrown"

\* a batch of a record without topics and a record of the target entity
\* with an unknown signature has been decoded to nothing
C9_Witness ==
    /\ dec.pc = "decoded"
    /\ dec.events = <<>>
    /\ \E i \in 1..Len(dec.batch) : LogTable[dec.batch[i]].topics = NoTopics
    /\ \E i \in 1..Len(dec.batch) :
          LET l == LogTable[dec.batch[i]]
          IN  /\ TopicAt(l, 0) # Undefined
              /\ UnknownSignature(l)
              /\ ~OtherEntity(l, dec.productId)

\* C10: a record whose second topic differs, ignoring case, from the target
\* entity id yields no event, whatever its first topic
C10_OtherEntityExcluded ==
    Decoded =>
        \A i \in 1..Len(dec.batch) :
            OtherEntity(LogTable[dec.batch[i]], dec.productId)
                => dec.batch[i] \notin Range(dec.events)

\* a CidAnchored record of another entity was dropped from a batch whose
\* other record, of the target entity, was decoded
C10_Witness ==
    /\ dec.pc = "decoded"
    /\ Len(dec.events) = 1
    /\ \E i \in 1..Len(dec.batch) :
          LET l == LogTable[dec.batch[i]]
          IN  /\ TopicAt(l, 0) = tCidAnchored
              /\ TopicAt(l, 1) # Undefined
              /\ OtherEntity(l, dec.productId)

(***************************************************************************)
(* The latency statistics: percentile and summarize                        *)
(***************************************************************************)
MaxValues == 3

\* what percentile and summarize return for an empty list
NaN == 0 - 1

\* e placed after the last element of the sorted list that is not greater
InsertNumber(sorted, e) ==
    LET k == Cardinality({i \in 1..Len(sorted) : sorted[i] - e <= 0})
    IN  SubSeq(sorted, 1, k) \o <<e>> \o SubSeq(sorted, k + 1, Len(sorted))

RECURSIVE SortNumbersFrom(_, _)
SortNumbersFrom(values, sorted) ==
    IF values = <<>> THEN sorted
    ELSE SortNumbersFrom(Tail(values), InsertNumber(sorted, Head(values)))

\* mutant: the copy is not sorted
UnsortedCopy(values) == values

\* [...values].sort((a, b) => a - b): a sorted copy
SortedCopy(values) == SortNumbersFrom(values, <<>>)

\* mutant: the nearest rank rounded up, ceil(p/100 * n) - 1
PercentileIndexCeil(n, p) == Min(n - 1, Max(0, ((p * n + 99) \div 100) - 1))

\* Math.min(s.length - 1, Math.max(0, Math.floor((p / 100) * (s.length - 1))))
\* for an integer p >= 0, on which the floating-point product and the
\* integer quotient have the same floor for the lengths drawn here
PercentileIndex(n, p) == Min(n - 1, Max(0, (p * (n - 1)) \div 100))

\* percentile(values, p); the index is 0-based in the code
percentile(values, p) ==
    IF Len(values) = 0 THEN NaN
    ELSE SortedCopy(values)[PercentileIndex(Len(values), p) + 1]

RECURSIVE SumOf(_)
SumOf(values) == IF values = <<>> THEN 0 ELSE Head(values) + SumOf(Tail(values))

\* summarize(values); the mean is kept as the pair (sum, n) it divides
summarize(values) ==
    LET n == Len(values)
    IN  [n |-> n,
         min |-> IF n > 0 THEN CHOOSE x \in Range(values) : \A y \in Range(values) : x <= y
                 ELSE NaN,
         max |-> IF n > 0 THEN CHOOSE x \in Range(values) : \A y \in Range(values) : x >= y
                 ELSE NaN,
         mean |-> IF n > 0 THEN <<SumOf(values), n>> ELSE <<NaN, NaN>>,
         p50 |-> percentile(values, 50),
         p95 |-> percentile(values, 95)]

(***************************************************************************)
(* The latency harness: simulateAuditQueryLatency, runAuditQueryOnce and   *)
(* mapLimit                                                                *)
(***************************************************************************)
MaxTxs == 2

\* the values a slot of mapLimit's out array holds
Hole == [st |-> "hole", logs |-> <<>>]    \* new Array(n): not yet assigned
Null == [st |-> "null", logs |-> <<>>]    \* r ?? null: the node knows no receipt
Void == [st |-> "void", logs |-> <<>>]    \* the timestamp callback returns nothing

\* the node's answer to eth_getTransactionReceipt: the logs of the
\* transaction of that hash, a hash being a 32-byte value
GetReceipt(txHash) ==
    LET k == toLowerCase(txHash)
        OfTx(i) == LogTable[i].transactionHash = k
        ids == SelectSeq([i \in LogIds |-> i], OfTx)
    IN  IF ids = <<>> THEN Null ELSE [st |-> "receipt", logs |-> ids]

\* a transaction the ledger may come to hold only while the harness runs
LateTx == Tx("1")

\* eth_getTransactionReceipt at a time when LateTx is mined or not: null for
\* a transaction that is not mined yet
GetReceiptAt(mined, txHash) ==
    IF ~mined /\ toLowerCase(txHash) = LateTx THEN Null ELSE GetReceipt(txHash)

\* the timestamp the node reports for a block
BlockTime(n) == n + n

\* getBlockTimestamp(primaryRpc, BigInt(b)) for a decimal string b
getBlockTimestamp(b) ==
    LET quantity == toHexQty(BigIntOf(b))
        blk == [timestamp |-> toHexQty(BlockTime(hexToBigInt(quantity)))]
    IN  hexToBigInt(blk.timestamp)

EmptyMap == [x \in {} |-> 0]
\* the count of the writes of key k after one more
Counted(m, k) == [x \in DOMAIN m \cup {k} |-> IF x = k THEN (IF k \in DOMAIN m THEN m[k] + 1 ELSE 1) ELSE m[x]]
\* Map.prototype.set
MapSet(m, k, v) == [x \in DOMAIN m \cup {k} |-> IF x = k THEN v ELSE m[x]]

TxPool == {Tx("1"), Tx("a"), Tx("A"), Tx("7"), Tx("6")}
ConcurrencyInputs == {0, 2}
WarmupInputs == {0, 1}
RunsInputs == {0, 2}

HarnessParams ==
    { [txs |-> t, concurrency |-> c, warmup |-> w, runs |-> r, productId |-> Pid] :
      t \in SeqsUpTo(TxPool, MaxTxs), c \in ConcurrencyInputs,
      w \in WarmupInputs, r \in RunsInputs }

NoMapLimit == [kind |-> "none", items |-> <<>>, next |-> 1, out |-> <<>>,
               wk |-> <<>>, micro |-> <<>>, calls |-> <<>>]

HarnessEntry ==
    [pc |-> "entry", mode |-> "cold", measured |-> FALSE, i |-> 0,
     receiptCache |-> EmptyMap, tsCache |-> EmptyMap, ml |-> NoMapLimit,
     events |-> <<>>,
     rfetch |-> <<>>,   \* history: the hashes of the receipts this run requested
     tfetch |-> <<>>,   \* history: the blocks whose timestamp this run requested
     rset |-> EmptyMap, \* history: key -> the number of receiptCache.set(key, ..)
     tset |-> EmptyMap, \* history: key -> the number of localTsCache.set(key, ..)
     totals |-> <<>>,   \* doMode's totals: r.total_ms of its measured runs
     result |-> EmptyMap, \* mode -> summarize(totals) of what doMode returned
     done |-> <<>>,     \* history: the runs completed so far
     miss |-> EmptyMap, \* history: key -> the run of the mode whose fetch, the
                        \* first answered for the key, found no receipt
     mined |-> TRUE]    \* the ledger: the transaction LateTx has been mined

InitHarness ==
    /\ hp \in HarnessParams
    /\ \E m \in BOOLEAN : h = [HarnessEntry EXCEPT !.mined = m]
    /\ NoScan
    /\ NoDec
    /\ NoStats
    /\ NoMain
    /\ NoRetry
    /\ NoAudit
    /\ NoProcess

\* mutant: the receipts callback never looks into the cache
ReceiptFnUncached(hh, w, i) ==
    [hh EXCEPT !.ml.wk[w] = [st |-> "fetching", i |-> i, val |-> Hole],
               !.rfetch = Append(@, hh.ml.items[i])]

\* the receipts callback up to its first await: a cached value, or a fetch
ReceiptFn(hh, w, i) ==
    LET t == hh.ml.items[i]
        k == toLowerCase(t)
    IN  IF hh.mode = "hot" /\ k \in DOMAIN hh.receiptCache
        THEN [hh EXCEPT !.ml.wk[w] = [st |-> "resolved", i |-> i, val |-> hh.receiptCache[k]],
                        !.ml.micro = Append(@, w)]
        ELSE [hh EXCEPT !.ml.wk[w] = [st |-> "fetching", i |-> i, val |-> Hole],
                        !.rfetch = Append(@, t)]

\* the timestamps callback up to its first await
TimestampFn(hh, w, i) ==
    LET b == hh.ml.items[i]
    IN  IF b \in DOMAIN hh.tsCache
        THEN [hh EXCEPT !.ml.wk[w] = [st |-> "resolved", i |-> i, val |-> Void],
                        !.ml.micro = Append(@, w)]
        ELSE [hh EXCEPT !.ml.wk[w] = [st |-> "fetching", i |-> i, val |-> Hole],
                        !.tfetch = Append(@, b)]

\* mutant: the counter is advanced by two
WorkerTakeSkip(hh, w) ==
    LET i == hh.ml.next
        taken == [hh EXCEPT !.ml.next = i + 2]
        called == [taken EXCEPT !.ml.calls = Append(@, i)]
    IN  IF i > Len(hh.ml.items)
        THEN [taken EXCEPT !.ml.wk[w] = [st |-> "returned", i |-> i, val |-> Void]]
        ELSE IF hh.ml.kind = "receipts" THEN ReceiptFn(called, w, i)
             ELSE TimestampFn(called, w, i)

\* one turn of worker's loop: const i = next++; if (i >= items.length)
\* return; then fn(items[i], i) up to its first await (indices from 1 here)
WorkerTake(hh, w) ==
    LET i == hh.ml.next
        taken == [hh EXCEPT !.ml.next = i + 1]
        called == [taken EXCEPT !.ml.calls = Append(@, i)]
    IN  IF i > Len(hh.ml.items)
        THEN [taken EXCEPT !.ml.wk[w] = [st |-> "returned", i |-> i, val |-> Void]]
        ELSE IF hh.ml.kind = "receipts" THEN ReceiptFn(called, w, i)
             ELSE TimestampFn(called, w, i)

RECURSIVE StartWorkers(_, _, _)
\* Array.from({ length }, () => worker()): the workers start in turn, each
\* running to its first await
StartWorkers(hh, w, n) ==
    IF w > n THEN hh ELSE StartWorkers(WorkerTake(hh, w), w + 1, n)

\* mutant: one worker is started for every item
mapLimitPerItem(hh, kind, items, limit) ==
    LET n == Max(1, Len(items))
        m == [kind |-> kind, items |-> items, next |-> 1,
              out |-> [i \in 1..Len(items) |-> Hole],
              wk |-> [w \in 1..n |-> [st |-> "idle", i |-> 0, val |-> Hole]],
              micro |-> <<>>, calls |-> <<>>]
    IN  StartWorkers([hh EXCEPT !.ml = m], 1, n)

\* mapLimit(items, limit, fn) up to await Promise.all(workers)
mapLimit(hh, kind, items, limit) ==
    LET n == Max(1, limit)
        m == [kind |-> kind, items |-> items, next |-> 1,
              out |-> [i \in 1..Len(items) |-> Hole],
              wk |-> [w \in 1..n |-> [st |-> "idle", i |-> 0, val |-> Hole]],
              micro |-> <<>>,     \* the workers whose awaited promise is already resolved
              calls |-> <<>>]     \* history: the indices fn was called with, in order
    IN  StartWorkers([hh EXCEPT !.ml = m], 1, n)

AllReturned(m) == \A w \in DOMAIN m.wk : m.wk[w].st = "returned"
Workers == 1..Max(1, hp.concurrency)

RECURSIVE DecodeReceipts(_, _, _)
\* events.push(...r) for the events r of one receipt, and the receipts left
PushDecoded(receipts, productId, events, r) ==
    IF r.threw THEN [threw |-> TRUE, events |-> <<>>]
    ELSE DecodeReceipts(Tail(receipts), productId, events \o r.events)

\* for (const rc of receipts) { if (!rc) continue; events.push(...decodeLogsToEvents(...)) }
DecodeReceipts(receipts, productId, events) ==
    IF receipts = <<>> THEN [threw |-> FALSE, events |-> events]
    ELSE IF Head(receipts).st # "receipt"
         THEN DecodeReceipts(Tail(receipts), productId, events)
         ELSE PushDecoded(receipts, productId, events,
                          decodeLogsToEvents(LogsOf(Head(receipts).logs), productId))

\* mutant: the list keeps one entry per event, repeats of a block included
BlockListAll(events, blocks) ==
    [k \in 1..Len(events) |-> toString(events[k].blockNumber)]

RECURSIVE BlockListFrom(_, _)
\* Array.from(blocks) of the Set filled with e.blockNumber.toString() in
\* the order of events
BlockListFrom(events, blocks) ==
    IF events = <<>> THEN blocks
    ELSE LET b == toString(Head(events).blockNumber)
         IN  BlockListFrom(Tail(events),
                           IF b \in Range(blocks) THEN blocks ELSE Append(blocks, b))

NoTimestamp == 0 - 2
\* localTsCache.get(e.blockNumber.toString())
TimestampIn(cache, e) ==
    LET b == toString(e.blockNumber)
    IN  IF b \in DOMAIN cache THEN cache[b] ELSE NoTimestamp

\* simulateAuditQueryLatency up to the first doMode
EnterHarness ==
    /\ h.pc = "entry"
    /\ h' = IF hp.txs = <<>> THEN [h EXCEPT !.pc = "skipped"]
            ELSE [h EXCEPT !.pc = "loop", !.mode = "cold", !.measured = FALSE, !.i = 0]
    /\ UNCHANGED <<hp, scanVars, dec, st, mn, rt, au, pm>>

\* an iteration of a loop of doMode: runAuditQueryOnce up to the await of
\* the receipts' mapLimit
StartRun ==
    /\ h.pc = "loop"
    /\ h.i < (IF h.measured THEN hp.runs ELSE hp.warmup)
    /\ h' = mapLimit([h EXCEPT !.pc = "receipts", !.events = <<>>,
                               !.rfetch = <<>>, !.tfetch = <<>>],
                     "receipts", hp.txs, hp.concurrency)
    /\ UNCHANGED <<hp, scanVars, dec, st, mn, rt, au, pm>>

\* a worker resumes after an await of a resolved promise; such
\* continuations run in the order they were queued, before any response
Resume ==
    /\ h.pc \in {"receipts", "timestamps"}
    /\ h.ml.micro # <<>>
    /\ LET w == Head(h.ml.micro)
           k == h.ml.wk[w]
       IN  h' = WorkerTake([h EXCEPT !.ml.micro = Tail(@), !.ml.out[k.i] = k.val], w)
    /\ UNCHANGED <<hp, scanVars, dec, st, mn, rt, au, pm>>

\* getTxReceipt answers: receiptCache.set(k, rc) when there is a cache,
\* out[i] = rc, and the worker's next turn
ReceiptResponse(w) ==
    /\ h.pc = "receipts"
    /\ w \in DOMAIN h.ml.wk
    /\ h.ml.wk[w].st = "fetching"
    /\ h.ml.micro = <<>>
    /\ LET i == h.ml.wk[w].i
           t == h.ml.items[i]
           rc == GetReceiptAt(h.mined, t)
       IN  h' = WorkerTake([h EXCEPT !.receiptCache =
                                        IF h.mode = "hot" THEN MapSet(@, toLowerCase(t), rc)
                                        ELSE @,
                                     !.rset =
                                        IF h.mode = "hot" THEN Counted(@, toLowerCase(t))
                                        ELSE @,
                                     !.miss =
                                        IF h.mode = "hot" /\ rc = Null
                                           /\ toLowerCase(t) \notin DOMAIN h.receiptCache
                                        THEN MapSet(@, toLowerCase(t), Len(h.done) + 1)
                                        ELSE @,
                                     !.ml.out[i] = rc], w)
    /\ UNCHANGED <<hp, scanVars, dec, st, mn, rt, au, pm>>

\* getBlockTimestamp answers: localTsCache.set(b, ts) and the worker's
\* next turn
TimestampResponse(w) ==
    /\ h.pc = "timestamps"
    /\ w \in DOMAIN h.ml.wk
    /\ h.ml.wk[w].st = "fetching"
    /\ h.ml.micro = <<>>
    /\ LET i == h.ml.wk[w].i
           b == h.ml.items[i]
       IN  h' = WorkerTake([h EXCEPT !.tsCache = MapSet(@, b, getBlockTimestamp(b)),
                                     !.tset = Counted(@, b),
                                     !.ml.out[i] = Void], w)
    /\ UNCHANGED <<hp, scanVars, dec, st, mn, rt, au, pm>>

\* rpc throws: Promise.all rejects and the error leaves the harness
RpcFailure(w) ==
    /\ h.pc \in {"receipts", "timestamps"}
    /\ w \in DOMAIN h.ml.wk
    /\ h.ml.wk[w].st = "fetching"
    /\ h.ml.micro = <<>>
    /\ h' = [h EXCEPT !.pc = "thrown"]
    /\ UNCHANGED <<hp, scanVars, dec, st, mn, rt, au, pm>>

\* mutant: the timestamp cache of the previous run is kept in cold mode too
TimestampsPhaseShared(hh, events) ==
    mapLimit([hh EXCEPT !.pc = "timestamps", !.events = IdsOf(events)],
             "timestamps", BlockListFrom(events, <<>>), hp.concurrency)

\* steps 3 and 4 of runAuditQueryOnce up to the await of the timestamps'
\* mapLimit, events being sorted
TimestampsPhase(hh, events) ==
    mapLimit([hh EXCEPT !.pc = "timestamps", !.events = IdsOf(events),
                        !.tsCache = IF hh.mode = "hot" THEN @ ELSE EmptyMap,
                        !.tset = IF hh.mode = "hot" THEN @ ELSE EmptyMap],
             "timestamps", BlockListFrom(events, <<>>), hp.concurrency)

\* step 2 gave r: an error leaves the run, a list of events is sorted
DecodedPhase(hh, r) ==
    IF r.threw THEN [hh EXCEPT !.pc = "thrown"]
    ELSE TimestampsPhase(hh, sortEvents(r.events))

\* the receipts are in: decode, sort, and the timestamps' mapLimit up to
\* its await
FinishReceipts ==
    /\ h.pc = "receipts"
    /\ AllReturned(h.ml)
    /\ h' = DecodedPhase(h, DecodeReceipts(h.ml.out, hp.productId, <<>>))
    /\ UNCHANGED <<hp, scanVars, dec, st, mn, rt, au, pm>>

\* what a run leaves behind: its timeline with the timestamps assigned, the
\* counts of its QueryRun and the requests it made
RunRecord(hh, events) ==
    [mode |-> hh.mode, measured |-> hh.measured, timeline |-> hh.events,
     timestamps |-> [k \in 1..Len(events) |-> TimestampIn(hh.tsCache, events[k])],
     txCount |-> Len(hp.txs), uniqueBlocks |-> Len(hh.ml.items),
     rfetch |-> hh.rfetch, tfetch |-> hh.tfetch]

\* the values r.total_ms takes
TotalMs == {10, 20}

\* mutant: the warm-up runs are sampled as well
PushTotalAlways(totals, measured, ms) == Append(totals, ms)

\* totals.push(r.total_ms) in the loop of the measured runs; the warm-up
\* loop drops what its runs return
PushTotal(totals, measured, ms) == IF measured THEN Append(totals, ms) ELSE totals

\* the timestamps are in: they are assigned to the events, the run returns
\* and the loop of doMode counts it
FinishRun ==
    /\ h.pc = "timestamps"
    /\ AllReturned(h.ml)
    /\ \E ms \in TotalMs :
          h' = [h EXCEPT !.pc = "loop", !.i = @ + 1,
                        !.done = Append(@, RunRecord(h, EventsOf(h.events, hp.productId))),
                        !.totals = PushTotal(@, h.measured, ms),
                        !.ml = NoMapLimit]
    /\ UNCHANGED <<hp, scanVars, dec, st, mn, rt, au, pm>>

\* a loop of doMode ends: warmup is followed by the measured runs, the
\* cold mode by the hot mode with its two new caches
EndLoop ==
    /\ h.pc = "loop"
    /\ h.i >= (IF h.measured THEN hp.runs ELSE hp.warmup)
    /\ h' = IF ~h.measured THEN [h EXCEPT !.measured = TRUE, !.i = 0]
            ELSE IF h.mode = "cold"
                 THEN [h EXCEPT !.mode = "hot", !.measured = FALSE, !.i = 0,
                                !.receiptCache = EmptyMap, !.tsCache = EmptyMap,
                                !.rset = EmptyMap, !.tset = EmptyMap,
                                !.result = MapSet(@, "cold", summarize(h.totals)),
                                !.totals = <<>>]
                 ELSE [h EXCEPT !.pc = "done",
                                !.result = MapSet(@, "hot", summarize(h.totals))]
    /\ UNCHANGED <<hp, scanVars, dec, st, mn, rt, au, pm>>

\* the ledger: the block that holds LateTx is produced while the hot mode
\* runs (the cold mode keeps no cache: it is run against a ledger that holds
\* the transaction from the start, or not at all)
Mine ==
    /\ h.pc \in {"loop", "receipts", "timestamps"}
    /\ h.mode = "hot"
    /\ ~h.mined
    /\ h' = [h EXCEPT !.mined = TRUE]
    /\ UNCHANGED <<hp, scanVars, dec, st, mn, rt, au, pm>>

NextHarness ==
    \/ Mine
    \/ EnterHarness
    \/ StartRun
    \/ Resume
    \/ \E w \in Workers : ReceiptResponse(w)
    \/ \E w \in Workers : TimestampResponse(w)
    \/ \E w \in Workers : RpcFailure(w)
    \/ FinishReceipts
    \/ FinishRun
    \/ EndLoop

SpecHarness == InitHarness /\ [][NextHarness]_vars

(***************************************************************************)
(* Properties of the timelines                                             *)
(***************************************************************************)
\* event a precedes event b strictly in (blockNumber, logIndex)
StrictlyBefore(a, b) ==
    \/ a.blockNumber < b.blockNumber
    \/ a.blockNumber = b.blockNumber /\ a.logIndex < b.logIndex

StrictlyAscending(events) ==
    \A k \in 1..(Len(events) - 1) : StrictlyBefore(events[k], events[k + 1])

\* C1: in the timeline of every run of the harness each event precedes the
\* next strictly in (blockNumber, logIndex)
C1_StrictlyAscending ==
    \A r \in 1..Len(h.done) :
        StrictlyAscending(EventsOf(h.done[r].timeline, hp.productId))

(***************************************************************************)
(* Properties of the decoder on short and malformed data blobs             *)
(***************************************************************************)
ZeroAddress == Prefix0x \o Rep("0", WordHexLen - AddressOffset)

\* l is a CidAnchored record of the target entity
CidRecordOf(l, productId) ==
    /\ TopicAt(l, 0) # Undefined
    /\ toLowerCase(TopicAt(l, 0)) = toLowerCase(tCidAnchored)
    /\ ~OtherEntity(l, productId)

\* C11: a CidAnchored record whose data blob holds fewer than its three
\* complete words still yields an event, in which every missing word reads
\* as the zero word: the content hash is the 32-byte zero value, the step
\* type is 0 and the actor is the all-zero address
C11_MissingWordsAreZero ==
    dec.pc \in {"decoded", "sorted"} =>
        \A i \in 1..Len(dec.batch) :
            LET l == LogTable[dec.batch[i]]
                n == Len(splitWords(l.data))
                e == EventOf(dec.batch[i], dec.productId)
            IN  (CidRecordOf(l, dec.productId) /\ n < 3)
                => /\ dec.batch[i] \in Range(dec.events)
                   /\ n < 1 => e.cidHash = ZeroWord
                   /\ n < 2 => e.stepType = 0
                   /\ e.actor = ZeroAddress

\* C12: a record with a malformed data blob does not keep the well-formed
\* records of its batch from being decoded: every record that decodes to an
\* event on its own has its event in the result of the batch
C12_SiblingsDecoded ==
    Decoded =>
        \A i \in 1..Len(dec.batch) :
            DecodeLog(LogTable[dec.batch[i]], dec.productId).res = "event"
                => dec.batch[i] \in Range(dec.events)

(***************************************************************************)
(* Calls of percentile and of summarize on arbitrary samples               *)
(***************************************************************************)
Latencies == {10, 20, 30}
FiveLatencies == {<<10, 20, 30, 40, 50>>, <<50, 10, 40, 20, 30>>, <<30, 30, 10, 50, 10>>}
Percents == {0, 1, 25, 49, 50, 51, 75, 95, 99, 100}

InitStats ==
    /\ \E v \in SeqsUpTo(Latencies, MaxValues) \cup FiveLatencies, p \in Percents :
          st = [pc |-> "input", values |-> v, p |-> p, result |-> NaN,
                summary |-> summarize(<<>>),
                input |-> v]    \* history: the list as it was passed
    /\ NoScan
    /\ NoDec
    /\ NoHarness
    /\ NoMain
    /\ NoRetry
    /\ NoAudit
    /\ NoProcess

\* percentile(values, p)
Percentile ==
    /\ st.pc = "input"
    /\ st' = [st EXCEPT !.pc = "percentile", !.result = percentile(st.values, st.p)]
    /\ UNCHANGED <<scanVars, dec, harnessVars, mn, rt, au, pm>>

\* summarize(values)
Summarize ==
    /\ st.pc = "percentile"
    /\ st' = [st EXCEPT !.pc = "summarized", !.summary = summarize(st.values)]
    /\ UNCHANGED <<scanVars, dec, harnessVars, mn, rt, au, pm>>

NextStats ==
    \/ Percentile
    \/ Summarize

SpecStats == InitStats /\ [][NextStats]_vars

(***************************************************************************)
(* Properties of the latency statistics                                    *)
(***************************************************************************)
\* the number of values below x, and of values not above x
Below(values, x) == Cardinality({i \in 1..Len(values) : values[i] < x})
NotAbove(values, x) == Cardinality({i \in 1..Len(values) : values[i] <= x})

\* floor(p/100 * (n-1)) clamped to [0, n-1]
RankIndex(n, p) ==
    LET k == (p * (n - 1)) \div 100
    IN  IF k < 0 THEN 0 ELSE IF k > n - 1 THEN n - 1 ELSE k

\* C14: for a non-empty list and p in 0..100, percentile returns the element
\* that stands at index floor(p/100 * (n-1)), clamped to [0, n-1], when the
\* values are put in ascending order; it is an element of the list, and the
\* list is as it was passed
C14_NearestRank ==
    (st.pc \in {"percentile", "summarized"} /\ Len(st.input) > 0) =>
        LET idx == RankIndex(Len(st.input), st.p)
        IN  /\ st.result \in Range(st.input)
            /\ Below(st.input, st.result) <= idx
            /\ idx < NotAbove(st.input, st.result)
            /\ st.values = st.input

\* percentile was applied to an unsorted list of five values at an index
\* that is neither the first nor the last
C14_Witness ==
    /\ st.pc = "percentile"
    /\ Len(st.values) = 5
    /\ st.values[1] > st.values[2]
    /\ RankIndex(5, st.p) \in {1, 2, 3}
    /\ st.result # st.values[RankIndex(5, st.p) + 1]

FiveValues == {10, 20, 30, 40, 50}

\* C15 as stated: for the values [10,20,30,40,50] the summary has p50 = 30
\* and p95 = 50
C15_P95IsMax ==
    (st.pc = "summarized" /\ st.values = <<10, 20, 30, 40, 50>>) =>
        (st.summary.p50 = 30 /\ st.summary.p95 = 50)

\* C15 amended: for the values 10, 20, 30, 40, 50, in any order, the summary
\* has p50 = 30 and p95 = 40
C15_P95IsFourth ==
    (st.pc = "summarized" /\ Len(st.values) = 5 /\ Range(st.values) = FiveValues) =>
        (st.summary.p50 = 30 /\ st.summary.p95 = 40)

\* the list [10,20,30,40,50] has been summarized
C15_Witness ==
    /\ st.pc = "summarized"
    /\ st.values = <<10, 20, 30, 40, 50>>
    /\ st.summary.n = 5

(***************************************************************************)
(* main of the receipt-based script: reconstruction from the tracked       *)
(* transactions, timestamps, completeness                                  *)
(***************************************************************************)
MaxMainTxs == 3

MainTxPool == {Tx("1"), Tx("a"), Tx("A"), Tx("3"), Tx("4"), Tx("5"), Tx("6"), Tx("7")}

\* mutant: the key keeps the letter case of the hash
SeenKeyExact(txHash) == txHash

\* const txh = t.txHash.toLowerCase()
SeenKey(txHash) == toLowerCase(txHash)

\* mutant: the step set is filled from the events of every kind
SeenStepsAnyKind(events) ==
    {events[k].stepType : k \in {j \in 1..Len(events) : events[j].kind = "CidAnchored"}}
    \cup {events[k].docType : k \in {j \in 1..Len(events) : events[j].kind = "DocumentAnchored"}}

\* for (const e of events) if (e.kind === "CidAnchored") seenSteps.add(e.stepType)
SeenSteps(events) ==
    {events[k].stepType : k \in {j \in 1..Len(events) : events[j].kind = "CidAnchored"}}

requiredStepsArr == <<1, 2, 3, 4, 5, 6>>

\* the completeness part of summary, for the set seenSteps
Completeness(seenSteps) ==
    LET Missing(x) == x \notin seenSteps
        missing == SelectSeq(requiredStepsArr, Missing)
    IN  [seenStepTypes |-> seenSteps, missingStepTypes |-> missing,
         completeness01 |-> IF Len(missing) = 0 THEN 1 ELSE 0]

NoReport == [seenStepTypes |-> {}, missingStepTypes |-> <<>>, completeness01 |-> 0 - 1]

\* the block of a receipt: that of its logs
ReceiptBlock(rc) == hexToBigInt(LogTable[rc.logs[1]].blockNumber)

MainEntry(txs) ==
    [pc |-> "txloop", txs |-> txs, productId |-> Pid, i |-> 1, seenTx |-> {},
     events |-> <<>>, observed |-> <<>>, tsCache |-> EmptyMap, ti |-> 1,
     timestamps |-> <<>>, report |-> NoReport,
     why |-> "",        \* history: what raised the error that ended main
     err |-> NoErr,     \* history: the message of the error rpc raised
     at |-> "",         \* history: the request rpc raised it on
     pending |-> <<>>,  \* history: the hashes logged as not found yet
     fetched |-> <<>>,  \* history: the hashes whose receipt was requested
     tfetch |-> <<>>]   \* history: the blocks whose timestamp was requested

InitMain ==
    /\ \E t \in SeqsUpTo(MainTxPool, MaxMainTxs) : mn = MainEntry(t)
    /\ NoScan
    /\ NoDec
    /\ NoHarness
    /\ NoStats
    /\ NoRetry
    /\ NoAudit
    /\ NoProcess

\* an iteration of for (const t of prod.txs) up to the await of getTxReceipt
MainNextTx ==
    /\ mn.pc = "txloop"
    /\ mn.i <= Len(mn.txs)
    /\ LET t == mn.txs[mn.i]
       IN  mn' = IF SeenKey(t) \in mn.seenTx THEN [mn EXCEPT !.i = @ + 1]
                 ELSE [mn EXCEPT !.pc = "receipt", !.seenTx = @ \cup {SeenKey(t)},
                                 !.fetched = Append(@, t)]
    /\ UNCHANGED <<scanVars, dec, harnessVars, st, rt, au, pm>>

\* prod.observed.minBlock and maxBlock after a receipt of block bn
Observe(observed, bn) ==
    IF observed = <<>> THEN <<bn, bn>> ELSE <<Min(observed[1], bn), Max(observed[2], bn)>>

\* the iteration after decodeLogsToEvents gave r for the receipt rc
MainPush(m, rc, r) ==
    IF r.threw THEN [m EXCEPT !.pc = "thrown", !.why = "decode",
                              !.observed = Observe(@, ReceiptBlock(rc))]
    ELSE [m EXCEPT !.pc = "txloop", !.i = @ + 1, !.events = @ \o IdsOf(r.events),
                   !.observed = Observe(@, ReceiptBlock(rc))]

\* mutant: a transaction without receipt ends the reconstruction
OnReceiptStrict(m, rc) ==
    IF rc.st # "receipt" THEN [m EXCEPT !.pc = "thrown", !.why = "pending"]
    ELSE MainPush(m, rc, decodeLogsToEvents(LogsOf(rc.logs), m.productId))

\* mutant: a receipt that is not found is requested once more
OnReceiptRetry(m, rc) ==
    IF rc.st # "receipt"
    THEN IF m.txs[m.i] \in Range(m.pending)
         THEN [m EXCEPT !.pc = "txloop", !.i = @ + 1]
         ELSE [m EXCEPT !.pc = "receipt", !.pending = Append(@, m.txs[m.i]),
                        !.fetched = Append(@, m.txs[m.i])]
    ELSE MainPush(m, rc, decodeLogsToEvents(LogsOf(rc.logs), m.productId))

\* the iteration after getTxReceipt gave rc: if (!rc) { console.log(...
\* (pending?)); continue }, else decode and push
OnReceipt(m, rc) ==
    IF rc.st # "receipt" THEN [m EXCEPT !.pc = "txloop", !.i = @ + 1,
                                        !.pending = Append(@, m.txs[m.i])]
    ELSE MainPush(m, rc, decodeLogsToEvents(LogsOf(rc.logs), m.productId))

\* getTxReceipt answers
MainReceipt ==
    /\ mn.pc = "receipt"
    /\ mn' = OnReceipt(mn, GetReceipt(mn.txs[mn.i]))
    /\ UNCHANGED <<scanVars, dec, harnessVars, st, rt, au, pm>>

\* Messages of errors rpc() raises for a request the endpoint refuses
\* because of its rate limit, and for one it fails on
ErrTooManyRequests == <<"R","P","C"," ","H","T","T","P"," ","4","2","9",":"," ","T","o","o"," ","M","a","n","y"," ","R","e","q","u","e","s","t","s">>
MainErrors == {ErrTooManyRequests, ErrHttp500}

\* rpc throws: the error leaves getTxReceipt or getBlockTimestamp, and main
MainRpcFailure ==
    /\ mn.pc \in {"receipt", "block"}
    /\ \E e \in MainErrors :
          mn' = [mn EXCEPT !.pc = "thrown", !.why = "rpc", !.err = e, !.at = mn.pc]
    /\ UNCHANGED <<scanVars, dec, harnessVars, st, rt, au, pm>>

\* the loop is over: sortEvents(events)
MainSort ==
    /\ mn.pc = "txloop"
    /\ mn.i > Len(mn.txs)
    /\ mn' = [mn EXCEPT !.pc = "tsloop", !.ti = 1,
                        !.events = IdsOf(sortEvents(EventsOf(mn.events, mn.productId)))]
    /\ UNCHANGED <<scanVars, dec, harnessVars, st, rt, au, pm>>

\* e.timestamp = tsCache.get(key), and the next event
MainStamp(m, key) ==
    [m EXCEPT !.pc = "tsloop", !.ti = @ + 1,
              !.timestamps = Append(@, IF key \in DOMAIN m.tsCache THEN m.tsCache[key]
                                       ELSE NoTimestamp)]

\* the key of the event the timestamps loop is at
MainKey(m) == toString(EventOf(m.events[m.ti], m.productId).blockNumber)

\* an iteration of the timestamps loop up to the await of getBlockTimestamp
MainNextEvent ==
    /\ mn.pc = "tsloop"
    /\ mn.ti <= Len(mn.events)
    /\ mn' = IF MainKey(mn) \in DOMAIN mn.tsCache THEN MainStamp(mn, MainKey(mn))
             ELSE [mn EXCEPT !.pc = "block", !.tfetch = Append(@, MainKey(mn))]
    /\ UNCHANGED <<scanVars, dec, harnessVars, st, rt, au, pm>>

\* getBlockTimestamp answers: tsCache.set(key, ts)
MainBlock ==
    /\ mn.pc = "block"
    /\ mn' = MainStamp([mn EXCEPT !.tsCache = MapSet(@, MainKey(mn),
                                                     getBlockTimestamp(MainKey(mn)))],
                       MainKey(mn))
    /\ UNCHANGED <<scanVars, dec, harnessVars, st, rt, au, pm>>

\* the completeness part of the summary
MainReport ==
    /\ mn.pc = "tsloop"
    /\ mn.ti > Len(mn.events)
    /\ mn' = [mn EXCEPT !.pc = "done",
                        !.report = Completeness(SeenSteps(EventsOf(mn.events, mn.productId)))]
    /\ UNCHANGED <<scanVars, dec, harnessVars, st, rt, au, pm>>

NextMain ==
    \/ MainNextTx
    \/ MainReceipt
    \/ MainRpcFailure
    \/ MainSort
    \/ MainNextEvent
    \/ MainBlock
    \/ MainReport

SpecMain == InitMain /\ [][NextMain]_vars

(***************************************************************************)
(* Properties of main's reconstruction                                     *)
(***************************************************************************)
\* the stepType values of the CidAnchored events among the records ids
CidSteps(ids) ==
    {DecodedTable[id].ev.stepType :
        id \in {x \in Range(ids) : DecodedTable[x].ev.kind = "CidAnchored"}}

\* C13: the completeness report is a function of the timeline: the observed
\* set is the set of stepType values of its CidAnchored events, the missing
\* steps are those of 1..6 not observed, in ascending order, completeness is 1
\* iff none is missing, and observed {1,2,3,4,5} gives 0 with 6 missing
C13_CompletenessReport ==
    mn.pc = "done" =>
        /\ mn.report.seenStepTypes = CidSteps(mn.events)
        /\ Range(mn.report.missingStepTypes) = (1..6) \ CidSteps(mn.events)
        /\ \A k \in 1..(Len(mn.report.missingStepTypes) - 1) :
              mn.report.missingStepTypes[k] < mn.report.missingStepTypes[k + 1]
        /\ (mn.report.completeness01 = 1) <=> (mn.report.missingStepTypes = <<>>)
        /\ mn.report.completeness01 \in {0, 1}
        /\ CidSteps(mn.events) = {1, 2, 3, 4, 5} =>
              (mn.report.completeness01 = 0 /\ mn.report.missingStepTypes = <<6>>)
        /\ CidSteps(mn.events) = 1..6 => mn.report.completeness01 = 1

\* a report over a timeline that holds steps 1 to 5 and an event of another
\* kind
C13_Witness ==
    /\ mn.pc = "done"
    /\ CidSteps(mn.events) = {1, 2, 3, 4, 5}
    /\ \E id \in Range(mn.events) : DecodedTable[id].ev.kind = "DocumentAnchored"
    /\ mn.report.missingStepTypes = <<6>>

\* for each hash of the pool, the records of the ledger that carry it (in
\* lower case, as the ledger stores hashes) and yield an event
EventIdsTable ==
    [t \in MainTxPool |->
        {id \in LogIds : /\ LogTable[id].transactionHash = toLowerCase(t)
                         /\ DecodedTable[id].res = "event"}]
EventIdsOfTx(txHash) == EventIdsTable[txHash]

\* the hashes of the pool the ledger holds no receipt for
NoReceiptSet ==
    {t \in MainTxPool : \A id \in LogIds : LogTable[id].transactionHash # toLowerCase(t)}
NoReceipt(txHash) == txHash \in NoReceiptSet

\* two hashes equal ignoring letter case
LowerKeyOf == [t \in MainTxPool |-> toLowerCase(t)]
SameTx(a, b) == LowerKeyOf[a] = LowerKeyOf[b]

\* the loop over the tracked transactions has run to its end
LoopOver == mn.pc \in {"tsloop", "block", "done"}

\* C16: a transaction whose receipt fetch returns null is logged as pending
\* and adds no event; main is never ended by it, and once the loop is over
\* every transaction fetched has either been logged as pending or has given
\* all the events of its receipt, those listed after a pending one included
C16_PendingSkipped ==
    /\ mn.pc = "thrown" => mn.why \in {"rpc", "decode"}
    /\ mn.pc # "unused" =>
          /\ \A k \in 1..Len(mn.pending) : NoReceipt(mn.pending[k])
          /\ \A id \in Range(mn.events) :
                \E k \in 1..Len(mn.fetched) :
                    /\ id \in EventIdsOfTx(mn.fetched[k])
                    /\ mn.fetched[k] \notin Range(mn.pending)
    /\ LoopOver =>
          /\ \A k \in 1..Len(mn.txs) :
                \E j \in 1..Len(mn.fetched) :
                    SameTx(mn.fetched[j], mn.txs[k])
          /\ Range(mn.pending) = {t \in Range(mn.fetched) : NoReceipt(t)}
          /\ Range(mn.events) = UNION {EventIdsOfTx(t) : t \in Range(mn.fetched)}
          /\ Distinct(mn.events)

\* main has finished over a list where a transaction without receipt stands
\* before one whose events are in the timeline
C16_Witness ==
    /\ mn.pc = "done"
    /\ \E k \in 1..Len(mn.txs) : \E j \in (k + 1)..Len(mn.txs) :
          /\ mn.txs[k] \in Range(mn.pending)
          /\ mn.txs[j] \in Range(mn.fetched)
          /\ EventIdsOfTx(mn.txs[j]) # {}
          /\ EventIdsOfTx(mn.txs[j]) \subseteq Range(mn.events)

\* no two positions of the list of records ids hold records with the same
\* blockNumber and the same logIndex
NoSharedPosition(ids) ==
    \A k \in 1..Len(ids) : \A j \in 1..Len(ids) :
        k # j => PosTable[ids[k]] # PosTable[ids[j]]

\* C17: in the timeline of every run of the harness no two events share both
\* blockNumber and logIndex, also when the list of tracked transactions holds
\* a hash more than once
C17_NoSharedPosition ==
    \A r \in 1..Len(h.done) : NoSharedPosition(h.done[r].timeline)

\* the same for the timeline main builds
MainNoSharedPosition == mn.pc # "unused" => NoSharedPosition(mn.events)

\* C18: main requests the receipt of a list entry only if no earlier entry
\* has the same hash ignoring letter case: no two requested hashes are equal
\* ignoring case, each requested hash is the first entry of the list with its
\* hash, and once the loop is over every hash of the list has been requested
\* exactly once
C18_OneFetchPerTx ==
    mn.pc # "unused" =>
        /\ \A k \in 1..Len(mn.fetched) : \A j \in 1..Len(mn.fetched) :
              k # j => ~SameTx(mn.fetched[k], mn.fetched[j])
        /\ \A k \in 1..Len(mn.fetched) :
              \E a \in 1..Len(mn.txs) :
                  /\ mn.txs[a] = mn.fetched[k]
                  /\ \A b \in 1..(a - 1) : ~SameTx(mn.txs[b], mn.txs[a])
        /\ LoopOver =>
              \A a \in 1..Len(mn.txs) :
                  Cardinality({k \in 1..Len(mn.fetched) : SameTx(mn.fetched[k], mn.txs[a])}) = 1

\* main has finished over a list that holds a hash and, later, the same hash
\* in another letter case, and has requested only the first
C18_Witness ==
    /\ mn.pc = "done"
    /\ \E a \in 1..Len(mn.txs) : \E b \in (a + 1)..Len(mn.txs) :
          /\ mn.txs[a] # mn.txs[b]
          /\ SameTx(mn.txs[a], mn.txs[b])
          /\ mn.txs[a] \in Range(mn.fetched)
          /\ mn.txs[b] \notin Range(mn.fetched)
          /\ EventIdsOfTx(mn.txs[a]) # {}

(***************************************************************************)
(* Properties of the timestamps and of the caches                          *)
(***************************************************************************)
\* the key of the block of each record of the ledger, as the caches hold it
BlockKeyOf == [id \in LogIds |-> toString(PosTable[id][1])]

\* the keys of the blocks of the records ids
BlockKeysOf(ids) == {BlockKeyOf[id] : id \in Range(ids)}

\* the completed runs that share the timestamp cache of run r, r included:
\* r alone in cold mode, the runs of the hot mode up to r otherwise
SameCacheRuns(r) ==
    IF h.done[r].mode = "cold" THEN {r}
    ELSE {q \in 1..r : h.done[q].mode = "hot"}

\* the requests for the timestamp of block b made by the runs in rs
LookupsOf(rs, b) ==
    UNION {{<<q, k>> : k \in {j \in 1..Len(h.done[q].tfetch) : h.done[q].tfetch[j] = b}} : q \in rs}

\* C19: for every completed run of the harness, each distinct block of its
\* timeline has been looked up exactly once over the lifetime of the cache the
\* run uses, no run asks for a block its timeline does not hold, and every
\* event carries the timestamp of its own block
C19_OneLookupPerBlock ==
    \A r \in 1..Len(h.done) :
        /\ \A b \in BlockKeysOf(h.done[r].timeline) :
              Cardinality(LookupsOf(SameCacheRuns(r), b)) = 1
        /\ Range(h.done[r].tfetch) \subseteq BlockKeysOf(h.done[r].timeline)
        /\ Distinct(h.done[r].tfetch)
        /\ Len(h.done[r].timestamps) = Len(h.done[r].timeline)
        /\ \A k \in 1..Len(h.done[r].timeline) :
              h.done[r].timestamps[k] = BlockTime(PosTable[h.done[r].timeline[k]][1])

\* a run with two workers has completed over a timeline of two blocks, one of
\* them holding several events, with one lookup for each block
C19_Witness ==
    \E r \in 1..Len(h.done) :
        /\ hp.concurrency = 2
        /\ Cardinality(BlockKeysOf(h.done[r].timeline)) = 2
        /\ Len(h.done[r].timeline) > 2
        /\ Len(h.done[r].tfetch) = 2
        /\ h.done[r].timestamps[1] = h.done[r].timestamps[2]
        /\ h.done[r].timestamps[1] # h.done[r].timestamps[Len(h.done[r].timeline)]

\* the same for main's sequential loop: one request per distinct block of
\* the timeline, and every event stamped with the time of its block
MainOneLookupPerBlock ==
    mn.pc = "done" =>
        /\ Distinct(mn.tfetch)
        /\ Range(mn.tfetch) = BlockKeysOf(mn.events)
        /\ Len(mn.timestamps) = Len(mn.events)
        /\ \A k \in 1..Len(mn.events) :
              mn.timestamps[k] = BlockTime(PosTable[mn.events[k]][1])

\* C20: every completed run of the cold mode, warm-up or measured, has
\* requested the receipt of every entry of the transaction list, in the
\* list's order, and the timestamp of every distinct block of its timeline,
\* once each, whatever ran before it
C20_ColdRefetchesAll ==
    \A r \in 1..Len(h.done) :
        h.done[r].mode = "cold" =>
            /\ h.done[r].rfetch = hp.txs
            /\ Range(h.done[r].tfetch) = BlockKeysOf(h.done[r].timeline)
            /\ Len(h.done[r].tfetch) = Cardinality(BlockKeysOf(h.done[r].timeline))

\* a measured cold run has completed after a warm-up run over the same list
\* and has requested receipts and timestamps again
C20_Witness ==
    /\ Len(h.done) >= 2
    /\ h.done[1].mode = "cold" /\ ~h.done[1].measured
    /\ h.done[2].mode = "cold" /\ h.done[2].measured
    /\ h.done[2].rfetch = hp.txs
    /\ h.done[2].tfetch # <<>>
    /\ h.done[2].tfetch = h.done[1].tfetch

\* C21: in hot mode a completed run is followed only by runs of the mode that
\* request no receipt and no timestamp of a block an earlier run of the mode
\* resolved, and, the list naming no transaction twice, their timelines and
\* timestamps are those of the first; the runs of the cold mode all come
\* before those of the hot mode and the receipt cache holds nothing while the
\* mode is cold
C21_HotCachesShared ==
    /\ \A q \in 1..Len(h.done) : \A r \in (q + 1)..Len(h.done) :
          /\ h.done[q].mode = "hot" => h.done[r].mode = "hot"
          /\ (h.done[q].mode = "hot" /\ h.done[r].mode = "hot") =>
                /\ h.done[r].rfetch = <<>>
                /\ Range(h.done[r].tfetch) \cap Range(h.done[q].tfetch) = {}
                /\ (\A i \in 1..Len(hp.txs) : \A j \in 1..Len(hp.txs) :
                       i # j => ~SameTx(hp.txs[i], hp.txs[j])) =>
                      /\ h.done[r].timeline = h.done[q].timeline
                      /\ h.done[r].timestamps = h.done[q].timestamps
    /\ (h.pc \notin {"unused", "entry"} /\ h.mode = "cold") =>
          /\ h.receiptCache = EmptyMap
          /\ \A r \in 1..Len(h.done) : h.done[r].mode = "cold"

\* a warm-up and a measured run of the hot mode have completed over a list
\* with events, the second without any request
C21_Witness ==
    \E q \in 1..Len(h.done) : \E r \in (q + 1)..Len(h.done) :
        /\ h.done[q].mode = "hot" /\ ~h.done[q].measured
        /\ h.done[r].mode = "hot" /\ h.done[r].measured
        /\ h.done[q].rfetch # <<>> /\ h.done[q].tfetch # <<>>
        /\ h.done[r].rfetch = <<>> /\ h.done[r].tfetch = <<>>
        /\ Len(h.done[r].timeline) > 0

RateLimitMessage(msg) ==
    includes(toLowerCase(msg), <<"t","o","o"," ","m","a","n","y"," ","r","e","q","u","e","s","t","s">>)

\* how many times main issued the request that raised the error it ended on
AttemptsOfFailed ==
    IF mn.at = "receipt"
    THEN Cardinality({k \in 1..Len(mn.fetched) : mn.fetched[k] = mn.fetched[Len(mn.fetched)]})
    ELSE Cardinality({k \in 1..Len(mn.tfetch) : mn.tfetch[k] = mn.tfetch[Len(mn.tfetch)]})

\* C23: main ends on a rate-limit error of a receipt fetch or timestamp
\* lookup only after it has issued that request more than once
C23_RateLimitRetried ==
    (mn.pc = "thrown" /\ mn.why = "rpc" /\ RateLimitMessage(mn.err)) =>
        AttemptsOfFailed > 1

(***************************************************************************)
(* Properties of the chunk size and of the end of a scan                   *)
(***************************************************************************)
\* C24: once a scan has initialised its locals, chunkSize is at least 1 and
\* at most max(1, chunk); no step increases it, and a step changes it only
\* when the chunk has just failed on every endpoint with a range-limit error
C24_ChunkSizeShrinksOnly ==
    [][\A s \in DOMAIN scan :
        LET a == scan[s]
            b == scan'[s]
        IN  /\ b.pc # "entry" /\ b.why # "nocandidates" =>
                  (1 <= b.chunkSize /\ b.chunkSize <= Max(1, args.chunk))
            /\ a.pc # "entry" =>
                  /\ b.chunkSize <= a.chunkSize
                  /\ b.chunkSize # a.chunkSize =>
                        /\ a.pc = "decide"
                        /\ ~a.success
                        /\ looksLikeRangeLimitError(a.lastErr)
                        /\ a.all = b.all]_vars

\* a scan has shrunk its chunk size and has completed a chunk after that
C24_Witness ==
    \E s \in DOMAIN scan :
        /\ scan[s].pc = "loop"
        /\ scan[s].chunkCount >= 1
        /\ scan[s].chunkSize < Max(1, args.chunk)
        /\ \E i \in 1..(Len(scan[s].reqs) - 1) :
              /\ scan[s].reqs[i].outcome = "err"
              /\ scan[s].reqs[i + 1].outcome = "ok"
              /\ scan[s].reqs[i + 1].chunkSize < scan[s].reqs[i].chunkSize

\* every request is eventually answered, with a result or an error, and the
\* steps of the scan between two requests are taken
SpecScanLive == SpecScan /\ WF_vars(NextScan)

\* the scan has left ethGetLogsChunkedWithProgress
ScanEnded(s) == scan[s].pc \in {"returned", "thrown"}

\* C25: every scan ends, whatever the endpoints answer. Each pass of the loop
\* that returns to the loop head has either moved the cursor start forward or,
\* with the cursor unchanged, made chunkSize smaller; the scan is eventually
\* left, and it is left by full coverage, early stop, the request ceiling or
\* an error raised to the caller
C25_ScanTerminates ==
    /\ [][\A s \in DOMAIN scan :
            (scan[s].pc = "decide" /\ scan'[s].pc = "loop") =>
                \/ scan'[s].start > scan[s].start
                \/ /\ scan'[s].start = scan[s].start
                   /\ scan'[s].chunkSize < scan[s].chunkSize]_vars
    /\ [](\A s \in DOMAIN scan :
            ScanEnded(s) =>
                scan[s].why \in {"covered", "early", "ceiling", "fatal",
                                 "predicate", "nocandidates"})
    /\ <>(\A s \in DOMAIN scan : ScanEnded(s))

\* a scan has ended after a chunk failed on every endpoint, was retried with
\* a smaller chunk size at the same cursor, and succeeded
C25_Witness ==
    \E s \in DOMAIN scan :
        /\ ScanEnded(s)
        /\ \E i \in 1..(Len(scan[s].reqs) - 1) :
              /\ RetryAfter(scan[s].reqs, i)
              /\ scan[s].reqs[i + 1].start = scan[s].reqs[i].start
              /\ scan[s].reqs[i + 1].chunkSize < scan[s].reqs[i].chunkSize
              /\ scan[s].reqs[i + 1].outcome = "ok"

\* no two entries of the tracked list name the same transaction
DistinctTxs(txs) ==
    \A a \in 1..Len(txs) : \A b \in 1..Len(txs) : a # b => ~SameTx(txs[a], txs[b])

\* C26: main's reconstruction over a list of N distinct transactions requests
\* N receipts, one per transaction and in the list's order; it never has
\* requested more receipts than the list has entries, and a transaction
\* logged as not found has been requested exactly once
C26_ExactlyNFetches ==
    mn.pc # "unused" =>
        /\ Len(mn.fetched) <= Len(mn.txs)
        /\ \A k \in 1..Len(mn.pending) :
              Cardinality({j \in 1..Len(mn.fetched) :
                              SameTx(mn.fetched[j], mn.pending[k])}) = 1
        /\ (LoopOver /\ DistinctTxs(mn.txs)) => mn.fetched = mn.txs

\* main has finished over three distinct transactions, one of them without
\* receipt, after three requests
C26_Witness ==
    /\ mn.pc = "done"
    /\ Len(mn.txs) = MaxMainTxs
    /\ DistinctTxs(mn.txs)
    /\ Len(mn.fetched) = MaxMainTxs
    /\ \E k \in 1..Len(mn.txs) : NoReceipt(mn.txs[k]) /\ mn.txs[k] \in Range(mn.pending)
    /\ mn.events # <<>>

\* C27: while the mode is hot no key of the receipt cache and no key of the
\* timestamp cache has been written more than once since the caches of the
\* mode were created
C27_CacheKeyWrittenOnce ==
    (h.pc \notin {"unused", "entry"} /\ h.mode = "hot") =>
        /\ \A k \in DOMAIN h.rset : h.rset[k] <= 1
        /\ \A b \in DOMAIN h.tset : h.tset[b] <= 1

\* the timestamp half of C27: no block's timestamp is written twice into
\* the cache of the hot mode
C27_TimestampKeyWrittenOnce ==
    (h.pc \notin {"unused", "entry"} /\ h.mode = "hot") =>
        \A b \in DOMAIN h.tset : h.tset[b] <= 1

\* the items of a mapLimit whose invocation of fn has begun and whose slot of
\* out has not been assigned yet
InFlight(m) == {i \in 1..Min(m.next - 1, Len(m.items)) : m.out[i] = Hole}

\* C28: at no moment of a mapLimit, over receipts or over timestamps, have
\* more than max(1, limit) invocations of fn begun without having assigned
\* their slot of out
C28_FanOutBounded ==
    h.pc \in {"receipts", "timestamps"} =>
        Cardinality(InFlight(h.ml)) <= Max(1, hp.concurrency)

\* a mapLimit over more items than its limit allows at once has as many
\* invocations in flight as the limit allows, the one in flight having begun
\* after an earlier one ended
C28_Witness ==
    /\ h.pc = "receipts"
    /\ Len(h.ml.items) > Max(1, hp.concurrency)
    /\ Cardinality(InFlight(h.ml)) = Max(1, hp.concurrency)
    /\ \E i \in 1..Len(h.ml.items) : h.ml.out[i] # Hole

\* n runs of a mode, sampled or not
RunsOf(mode, measured, n) == [k \in 1..n |-> [mode |-> mode, measured |-> measured]]

\* the runs simulateAuditQueryLatency makes, in order: per mode the warm-up
\* runs and then the measured runs, the cold mode first
RunPlan ==
    RunsOf("cold", FALSE, hp.warmup) \o RunsOf("cold", TRUE, hp.runs)
        \o RunsOf("hot", FALSE, hp.warmup) \o RunsOf("hot", TRUE, hp.runs)

\* C29: the completed runs are the first runs of the plan, a run in progress
\* is the next run of the plan, and no run begins before the one before it
\* has completed; the samples of a mode are those of its measured runs only;
\* what a mode reports has n = runs, and once the harness has returned each
\* mode has made warmup + runs runs
C29_RunsPerMode ==
    h.pc \notin {"unused", "entry", "skipped"} =>
        /\ Len(h.done) <= Len(RunPlan)
        /\ \A r \in 1..Len(h.done) :
              /\ h.done[r].mode = RunPlan[r].mode
              /\ h.done[r].measured = RunPlan[r].measured
        /\ h.pc \in {"receipts", "timestamps"} =>
              /\ Len(h.done) < Len(RunPlan)
              /\ RunPlan[Len(h.done) + 1] = [mode |-> h.mode, measured |-> h.measured]
        /\ Len(h.totals) =
              Cardinality({r \in 1..Len(h.done) :
                              h.done[r].mode = h.mode /\ h.done[r].measured})
        /\ \A m \in DOMAIN h.result : h.result[m].n = hp.runs
        /\ h.pc = "done" =>
              /\ DOMAIN h.result = {"cold", "hot"}
              /\ \A m \in {"cold", "hot"} :
                    Cardinality({r \in 1..Len(h.done) : h.done[r].mode = m})
                        = hp.warmup + hp.runs

\* the harness has returned after a warm-up run and two measured runs in
\* each mode, and each mode reports two samples
C29_Witness ==
    /\ h.pc = "done"
    /\ hp.warmup = 1 /\ hp.runs = 2
    /\ Len(h.done) = 6
    /\ h.result["cold"].n = 2 /\ h.result["hot"].n = 2
    /\ h.result["cold"].max # h.result["hot"].min

(***************************************************************************)
(* The retry helpers of the benchmark scripts: withRpcRetry of              *)
(* benchmark-op-rpcs.ts, withRetry and withRpcRetry of                      *)
(* benchmark-op-infura-multiwallet.ts                                       *)
(***************************************************************************)
\* const MAX_RETRIES = 15
MAX_RETRIES == 15
\* maxAttempts of withRetry (its default) and of the multiwallet withRpcRetry
WithRetryMaxAttempts == 5
MultiwalletMaxAttempts == 20
\* the caps of the delay, and its base, in ms
RpcsDelayCapMs == 15000
MultiwalletDelayCapMs == 10000
DelayBaseMs == 1000
\* the JSON-RPC codes the helpers look for, and one they do not
CodeCapacity == 0 - 32016
CodeNoBackend == 0 - 32011
CodeOther == 0 - 32000
NoCode == 0

PhraseCapacity == <<"e","x","c","e","e","d","e","d"," ","i","t","s"," ","r","e","q","u","e","s","t","s"," ","p","e","r"," ","s","e","c","o","n","d"," ","c","a","p","a","c","i","t","y">>
PhraseTooMany == <<"t","o","o"," ","m","a","n","y"," ","r","e","q","u","e","s","t","s">>
PhraseNoBackend == <<"n","o"," ","b","a","c","k","e","n","d"," ","i","s"," ","c","u","r","r","e","n","t","l","y"," ","h","e","a","l","t","h","y">>

\* the errors the wrapped operation raises: code is err?.error?.code ??
\* err?.code, msg is err?.error?.message ?? err?.message, class is what the
\* endpoint meant
RetryErrors ==
    { [code |-> CodeCapacity, msg |-> <<"r","a","t","e"," ","l","i","m","i","t","e","d">>, class |-> "rate-limit"],
      [code |-> NoCode, msg |-> <<"A","p","p"," ","h","a","s"," ","e","x","c","e","e","d","e","d"," ","i","t","s"," ","r","e","q","u","e","s","t","s"," ","p","e","r"," ","s","e","c","o","n","d"," ","c","a","p","a","c","i","t","y">>, class |-> "rate-limit"],
      [code |-> NoCode, msg |-> <<"4","2","9"," ","T","o","o"," ","M","a","n","y"," ","R","e","q","u","e","s","t","s">>, class |-> "rate-limit"],
      [code |-> CodeNoBackend, msg |-> <<"b","a","c","k","e","n","d"," ","u","n","a","v","a","i","l","a","b","l","e">>, class |-> "backend-down"],
      [code |-> NoCode, msg |-> <<"N","o"," ","b","a","c","k","e","n","d"," ","i","s"," ","c","u","r","r","e","n","t","l","y"," ","h","e","a","l","t","h","y"," ","t","o"," ","s","e","r","v","e"," ","t","r","a","f","f","i","c">>, class |-> "backend-down"],
      [code |-> CodeOther, msg |-> <<"n","o","n","c","e"," ","t","o","o"," ","l","o","w">>, class |-> "other"] }

\* isRateLimitError of benchmark-op-rpcs.ts
isRateLimitError(err) ==
    \/ err.code = CodeCapacity
    \/ includes(err.msg, PhraseCapacity)
    \/ includes(toLowerCase(err.msg), PhraseTooMany)

\* isBackendDownError of benchmark-op-rpcs.ts
isBackendDownError(err) ==
    \/ err.code = CodeNoBackend
    \/ includes(toLowerCase(err.msg), PhraseNoBackend)

\* isRateLimitError of benchmark-op-infura-multiwallet.ts
isRateLimitErrorMultiwallet(err) ==
    \/ err.code = CodeCapacity
    \/ includes(err.msg, PhraseCapacity)

\* retryable of withRetry
withRetryRetryable(err) ==
    \/ err.code = CodeCapacity
    \/ err.code = CodeNoBackend
    \/ includes(toLowerCase(err.msg), PhraseTooMany)
    \/ includes(toLowerCase(err.msg), PhraseCapacity)
    \/ includes(toLowerCase(err.msg), PhraseNoBackend)

RetryHelpers == {"withRpcRetry", "withRetry", "multiwallet.withRpcRetry"}

\* the bound the helper compares attempt with
MaxAttemptsOf(helper) ==
    CASE helper = "withRpcRetry" -> MAX_RETRIES
      [] helper = "withRetry" -> WithRetryMaxAttempts
      [] OTHER -> MultiwalletMaxAttempts

\* the cap of the helper's delay
DelayCapOf(helper) ==
    IF helper = "withRpcRetry" THEN RpcsDelayCapMs ELSE MultiwalletDelayCapMs

\* the helper's test of the error it caught
Retryable(helper, err) ==
    CASE helper = "withRpcRetry" -> isRateLimitError(err) \/ isBackendDownError(err)
      [] helper = "withRetry" -> withRetryRetryable(err)
      [] OTHER -> isRateLimitErrorMultiwallet(err)

\* mutant: the delay doubles without a cap
DelayMsUncapped(cap, attempt) == DelayBaseMs * 2^attempt

\* const delayMs = Math.min(cap, 1000 * 2 ** attempt)
DelayMs(cap, attempt) == Min(cap, DelayBaseMs * 2^attempt)

\* mutant: one more retry than the bound allows
MayRetryOnceMore(helper, err, attempt) ==
    Retryable(helper, err) /\ attempt <= MaxAttemptsOf(helper)

\* retryable && attempt < MAX_RETRIES
MayRetry(helper, err, attempt) ==
    Retryable(helper, err) /\ attempt < MaxAttemptsOf(helper)

NoRetryError == [code |-> NoCode, msg |-> <<>>, class |-> "none"]

RetryEntry(helper) ==
    [pc |-> "call", helper |-> helper, attempt |-> 0, err |-> NoRetryError,
     calls |-> 0,       \* history: the number of calls of fn
     failed |-> <<>>,   \* history: the class of the error of each failed call
     delays |-> <<>>,   \* history: the delays slept, in ms
     result |-> 0]      \* what the helper returned: the number of the call of fn

InitRetry ==
    /\ \E f \in RetryHelpers : rt = RetryEntry(f)
    /\ NoAudit
    /\ NoProcess
    /\ NoScan
    /\ NoDec
    /\ NoHarness
    /\ NoStats
    /\ NoMain

\* return await fn(): fn fulfils
RetryCallOk ==
    /\ rt.pc = "call"
    /\ rt' = [rt EXCEPT !.pc = "returned", !.calls = @ + 1, !.result = rt.calls + 1]
    /\ UNCHANGED <<scanVars, dec, harnessVars, st, mn, au, pm>>

\* return await fn(): fn rejects and the catch clause takes the error
RetryCallFails ==
    /\ rt.pc = "call"
    /\ \E e \in RetryErrors :
          rt' = [rt EXCEPT !.pc = "caught", !.calls = @ + 1, !.err = e,
                           !.failed = Append(@, e.class)]
    /\ UNCHANGED <<scanVars, dec, harnessVars, st, mn, au, pm>>

\* the catch clause: await sleep(delayMs) and another turn, or throw err
RetryCatch ==
    /\ rt.pc = "caught"
    /\ rt' = IF MayRetry(rt.helper, rt.err, rt.attempt)
             THEN [rt EXCEPT !.pc = "sleeping",
                             !.delays = Append(@, DelayMs(DelayCapOf(rt.helper), rt.attempt))]
             ELSE [rt EXCEPT !.pc = "thrown"]
    /\ UNCHANGED <<scanVars, dec, harnessVars, st, mn, au, pm>>

\* the sleep is over: attempt++; continue
RetryWake ==
    /\ rt.pc = "sleeping"
    /\ rt' = [rt EXCEPT !.pc = "call", !.attempt = @ + 1]
    /\ UNCHANGED <<scanVars, dec, harnessVars, st, mn, au, pm>>

NextRetry ==
    \/ RetryCallOk
    \/ RetryCallFails
    \/ RetryCatch
    \/ RetryWake

SpecRetry == InitRetry /\ [][NextRetry]_vars

(***************************************************************************)
(* Properties of the retry helpers                                         *)
(***************************************************************************)
\* the call in rt is one of withRpcRetry of benchmark-op-rpcs.ts
OfRpcs == rt.pc # "unused" /\ rt.helper = "withRpcRetry"

\* C30: withRpcRetry of benchmark-op-rpcs.ts calls the operation at most
\* MAX_RETRIES + 1 times; every failed call it went on after was a rate-limit
\* or a backend-down error; the delay before retry number k + 1 is
\* min(15000, 1000 * 2^k), so the delays never decrease and never exceed
\* 15000; it returns the result of the first call that succeeded; and it
\* throws the error of its last call, with no delay after it, when that error
\* is of another class or MAX_RETRIES retries have been made
C30_BoundedBackoff ==
    OfRpcs =>
        /\ rt.calls <= MAX_RETRIES + 1
        /\ Len(rt.delays) <= MAX_RETRIES
        /\ \A k \in 1..Len(rt.delays) :
              /\ rt.delays[k] = Min(15000, 1000 * 2^(k - 1))
              /\ rt.failed[k] \in {"rate-limit", "backend-down"}
              /\ k > 1 => rt.delays[k - 1] <= rt.delays[k]
        /\ rt.pc = "returned" =>
              /\ rt.result = rt.calls
              /\ Len(rt.failed) = rt.calls - 1
              /\ Len(rt.delays) = rt.calls - 1
        /\ rt.pc = "thrown" =>
              /\ Len(rt.failed) = rt.calls
              /\ Len(rt.delays) = rt.calls - 1
              /\ rt.err.class = rt.failed[rt.calls]
              /\ \/ rt.err.class = "other"
                 \/ rt.calls = MAX_RETRIES + 1
        /\ (rt.pc = "sleeping" /\ rt.err.class # "other") => Len(rt.delays) = rt.calls

\* withRpcRetry has given up after MAX_RETRIES + 1 failed calls, the last
\* delays having been capped
C30_Witness ==
    /\ OfRpcs
    /\ rt.pc = "thrown"
    /\ rt.calls = MAX_RETRIES + 1
    /\ rt.err.class = "backend-down"
    /\ rt.delays[MAX_RETRIES] = 15000
    /\ rt.delays[1] = 1000

(***************************************************************************)
(* main of the scanning script: the three scans under Promise.all          *)
(***************************************************************************)
\* the parameters the three scans share: one range, one list of endpoints
ConcurrentArgs ==
    { [fromBlock |-> 100, toBlock |-> 103, chunk |-> c, maxRequests |-> m,
       earlyStop |-> e, rpcCandidates |-> <<"rpcA">>, productId |-> Pid] :
      c \in {2, 100}, m \in {2}, e \in BOOLEAN }

\* Promise.all([ethGetLogsChunkedWithProgress(..) x 3]): the three calls have
\* begun and none has run its first statement
InitConcurrent ==
    /\ args \in ConcurrentArgs
    /\ scan = [s \in Labels |-> ScanEntry]
    /\ NoDec
    /\ NoHarness
    /\ NoStats
    /\ NoMain
    /\ NoRetry
    /\ NoAudit
    /\ NoProcess

SpecConcurrent == InitConcurrent /\ [][NextScan]_vars

\* the number of halvings the history r shows
Halvings(r) == Cardinality({i \in 1..(Len(r) - 1) : RetryAfter(r, i)})

RECURSIVE HalvedTimes(_, _)
\* chunkSize after k halvings
HalvedTimes(chunkSize, k) ==
    IF k = 0 THEN chunkSize ELSE HalvedTimes(Max(1, chunkSize \div 2), k - 1)

\* the cursor a scan alone would have after the requests of history r
CursorAfter(r) ==
    IF \E i \in 1..Len(r) : r[i].outcome = "ok"
    THEN r[CHOOSE i \in 1..Len(r) :
              r[i].outcome = "ok" /\ \A j \in (i + 1)..Len(r) : r[j].outcome # "ok"].end + 1
    ELSE args.fromBlock

\* C31: a step changes the locals of one scan only, and the cursor, chunk
\* size, request count, accumulated records and result of every scan are
\* those its own requests and their answers give, whatever the other two
\* scans have done meanwhile
C31_ScansIndependent ==
    /\ [][\A s \in DOMAIN scan : \A t \in DOMAIN scan :
            (s # t /\ scan'[s] # scan[s]) => scan'[t] = scan[t]]_vars
    /\ [](\A s \in DOMAIN scan :
            scan[s].pc \notin {"entry"} /\ scan[s].why # "nocandidates" =>
                /\ scan[s].reqCount = Len(scan[s].reqs)
                /\ scan[s].all = OkRecords(scan[s].reqs)
                /\ \A i \in 1..Len(scan[s].reqs) : scan[s].reqs[i].url \in Range(args.rpcCandidates)
                /\ scan[s].pc \in {"loop", "return", "returned"} =>
                      /\ scan[s].start = CursorAfter(scan[s].reqs)
                      /\ scan[s].chunkSize
                           = HalvedTimes(Max(1, args.chunk), Halvings(scan[s].reqs)
                                + (IF scan[s].reqs # <<>>
                                      /\ scan[s].reqs[Len(scan[s].reqs)].outcome = "err"
                                   THEN 1 ELSE 0))
                /\ scan[s].pc = "returned" => scan[s].result = OkRecords(scan[s].reqs))

\* the three scans have ended, one after a halving, one by its early stop
\* and one by covering the range without either
C31_Witness ==
    /\ \A s \in DOMAIN scan : scan[s].pc = "returned"
    /\ DOMAIN scan = Labels
    /\ Halvings(scan["DocumentRegistry"].reqs) > 0
    /\ scan["DocumentRegistry"].why = "covered"
    /\ scan["ProcessManager"].why = "early"
    /\ Halvings(scan["CidRollup"].reqs) = 0
    /\ scan["CidRollup"].why = "early"
    /\ scan["CidRollup"].chunkSize # scan["DocumentRegistry"].chunkSize

(***************************************************************************)
(* main of the scanning script: decoding, sort, timestamps and report      *)
(***************************************************************************)
AuditArgs ==
    { [fromBlock |-> 100, toBlock |-> t, chunk |-> c, maxRequests |-> 2,
       earlyStop |-> e, rpcCandidates |-> <<"rpcA">>, productId |-> Pid] :
      t \in {102, 103}, c \in {2, 100}, e \in BOOLEAN }

\* the locals of main while Promise.all is awaited
AuditEntry ==
    [pc |-> "scanning", events |-> <<>>, tsCache |-> EmptyMap, ti |-> 1,
     timestamps |-> <<>>, report |-> NoReport, written |-> FALSE, exitCode |-> 0,
     why |-> "",        \* history: what raised the error main().catch received
     tfetch |-> <<>>]   \* history: the blocks whose timestamp was requested

InitAudit ==
    /\ args \in AuditArgs
    /\ scan = [s \in Labels |-> ScanEntry]
    /\ au = AuditEntry
    /\ NoProcess
    /\ NoDec
    /\ NoHarness
    /\ NoStats
    /\ NoMain
    /\ NoRetry

\* the variant the loop over the result of the scan `label` decodes a record
\* as: cidLogs and docLogs have one, procLogs tests the first topic
AuditKind(label, l) ==
    CASE label = "CidRollup" -> "CidAnchored"
      [] label = "DocumentRegistry" -> "DocumentAnchored"
      [] OTHER ->
           IF toLowerCase(OrElse(TopicAt(l, 0), <<>>)) = toLowerCase(tProcessCreated)
           THEN "ProcessCreated"
           ELSE IF toLowerCase(OrElse(TopicAt(l, 0), <<>>)) = toLowerCase(tProcessStatusChanged)
           THEN "ProcessStatusChanged"
           ELSE "none"

\* one iteration of main's loop over the result of the scan `label`; the
\* script's decodeBytes32 raises a TypeError on a topic that is missing, and
\* the loop over procLogs converts blockNumber and logIndex first
AuditDecodeLog(label, l, productId) ==
    IF label = "ProcessManager"
       /\ (hexToBigInt(l.blockNumber) = Thrown \/ hexToBigInt(l.logIndex) = Thrown)
    THEN [res |-> "throw"]
    ELSE IF AuditKind(label, l) # "none" /\ TopicAt(l, 2) = Undefined THEN [res |-> "throw"]
    ELSE IF AuditKind(label, l) \in {"CidAnchored", "DocumentAnchored"}
            /\ TopicAt(l, 3) = Undefined THEN [res |-> "throw"]
    ELSE DecodeWords(l, productId, AuditKind(label, l), splitWords(l.data))

\* what main decodes each record of the ledger to when the scan of the
\* record's contract returns it to a run for the entity Pid
AuditTable ==
    [id \in LogIds |-> AuditDecodeLog(LogTable[id].address, LogTable[id], Pid)]
AuditEventsOf(ids) == [k \in 1..Len(ids) |-> AuditTable[ids[k]].ev]

\* the three loops of main over cidLogs, docLogs and procLogs
AuditLogs == scan["CidRollup"].result \o scan["DocumentRegistry"].result
             \o scan["ProcessManager"].result
AuditDecoded(ids) == SelectSeq(ids, LAMBDA id : AuditTable[id].res = "event")
AuditDecodeThrows(ids) == \E k \in 1..Len(ids) : AuditTable[ids[k]].res = "throw"

\* a step of one of the three scans while main awaits Promise.all; a scan
\* that has thrown rejects the await before any other response is handled
AuditScan ==
    /\ au.pc = "scanning"
    /\ \A s \in Labels : scan[s].pc # "thrown"
    /\ NextScan

\* mutant: the error is swallowed and main goes on to the report
AuditSwallow(a, why) == [a EXCEPT !.pc = "tsloop", !.ti = Len(a.events) + 1, !.why = why]

\* main().catch((err) => { console.error(err); process.exit(1) })
AuditExit(a, why) == [a EXCEPT !.pc = "exited", !.exitCode = 1, !.why = why]

\* Promise.all rejects with the error of the scan that threw
AuditScanFailed ==
    /\ au.pc = "scanning"
    /\ \E s \in Labels : scan[s].pc = "thrown"
    /\ au' = AuditExit(au, "scan")
    /\ UNCHANGED <<scanVars, dec, harnessVars, st, mn, rt, pm>>

\* Promise.all fulfils: the three decoding loops and events.sort
AuditDecodeSort ==
    /\ au.pc = "scanning"
    /\ \A s \in Labels : scan[s].pc = "returned"
    /\ au' = IF AuditDecodeThrows(AuditLogs) THEN AuditExit(au, "decode")
             ELSE [au EXCEPT !.pc = "tsloop", !.ti = 1,
                             !.events = IdsOf(sortEvents(AuditEventsOf(AuditDecoded(AuditLogs))))]
    /\ UNCHANGED <<scanVars, dec, harnessVars, st, mn, rt, pm>>

\* the key of the event the timestamps loop is at
AuditKey(a) == toString(AuditTable[a.events[a.ti]].ev.blockNumber)

\* e.timestamp = tsCache.get(key), and the next event
AuditStamp(a, key) ==
    [a EXCEPT !.pc = "tsloop", !.ti = @ + 1, !.timestamps = Append(@, a.tsCache[key])]

\* an iteration of the timestamps loop up to the await of getBlockTimestamp
AuditNextEvent ==
    /\ au.pc = "tsloop"
    /\ au.ti <= Len(au.events)
    /\ au' = IF AuditKey(au) \in DOMAIN au.tsCache THEN AuditStamp(au, AuditKey(au))
             ELSE [au EXCEPT !.pc = "block", !.tfetch = Append(@, AuditKey(au))]
    /\ UNCHANGED <<scanVars, dec, harnessVars, st, mn, rt, pm>>

\* getBlockTimestamp answers: tsCache.set(key, ts)
AuditBlock ==
    /\ au.pc = "block"
    /\ au' = AuditStamp([au EXCEPT !.tsCache = MapSet(@, AuditKey(au),
                                                     getBlockTimestamp(AuditKey(au)))],
                        AuditKey(au))
    /\ UNCHANGED <<scanVars, dec, harnessVars, st, mn, rt, pm>>

\* rpc throws in getBlockTimestamp: the error leaves main
AuditBlockFails ==
    /\ au.pc = "block"
    /\ au' = AuditExit(au, "timestamp")
    /\ UNCHANGED <<scanVars, dec, harnessVars, st, mn, rt, pm>>

\* the loop is over: the completeness part of summary, then
\* fs.writeFileSync(outPath, JSON.stringify({ summary, events }, null, 2))
AuditWrite ==
    /\ au.pc = "tsloop"
    /\ au.ti > Len(au.events)
    /\ au' = [au EXCEPT !.pc = "done", !.written = TRUE,
                        !.report = Completeness(SeenSteps(AuditEventsOf(au.events)))]
    /\ UNCHANGED <<scanVars, dec, harnessVars, st, mn, rt, pm>>

NextAudit ==
    \/ AuditScan
    \/ AuditScanFailed
    \/ AuditDecodeSort
    \/ AuditNextEvent
    \/ AuditBlock
    \/ AuditBlockFails
    \/ AuditWrite

SpecAudit == InitAudit /\ [][NextAudit]_vars

\* a lookup of the timestamps loop has failed / a scan has thrown
AuditFailed ==
    \/ \E s \in Labels : scan[s].pc = "thrown"
    \/ au.why = "timestamp"

\* C33: the report is written only after the three scans have returned, the
\* events are sorted and every event has its timestamp; once a scan has thrown
\* or a timestamp lookup has failed no report is ever written, the only step
\* main can still take is the exit with code 1, and after it nothing changes.
C33_ReportOnlyAfterSuccess ==
    /\ [](au.written =>
            /\ au.exitCode = 0
            /\ \A s \in Labels : scan[s].pc = "returned"
            /\ au.events = IdsOf(sortEvents(AuditEventsOf(AuditDecoded(AuditLogs))))
            /\ Len(au.timestamps) = Len(au.events)
            /\ \A k \in 1..Len(au.events) :
                  au.timestamps[k] = BlockTime(AuditTable[au.events[k]].ev.blockNumber))
    /\ [](AuditFailed => ~au.written)
    /\ [](au.exitCode # 0 => au.exitCode = 1 /\ ~au.written /\ au.pc = "exited")
    /\ [][(AuditFailed \/ au.pc = "exited") => (au'.pc = "exited" /\ au'.exitCode = 1)]_vars

\* a run whose scans returned and whose timestamps loop resolved a block
\* before a later lookup failed: it has exited with code 1, nothing written
C33_Witness ==
    /\ au.pc = "exited"
    /\ au.why = "timestamp"
    /\ Len(au.timestamps) > 0
    /\ ~au.written

(***************************************************************************)
(* The timelines of both reconstruction paths                              *)
(***************************************************************************)
\* a run of either program: the scanning script's main, or a call of
\* decodeLogsToEvents and sortEvents as the receipt path makes it
InitTimelines == InitAudit \/ InitDecode
NextTimelines == NextAudit \/ NextDecode
SpecTimelines == InitTimelines /\ [][NextTimelines]_vars

\* C32: every event of a timeline carries the entity id the run was started
\* for, on the receipt path (decodeLogsToEvents) and on the scan path (main's
\* decoding loops): productId is one value over the whole timeline, the run's.
C32_EntityIdConstant ==
    /\ dec.pc = "sorted" =>
          \A k \in 1..Len(dec.timeline) :
              EventOf(dec.timeline[k], dec.productId).productId = dec.productId
    /\ au.pc \in {"tsloop", "block", "done"} =>
          \A k \in 1..Len(au.events) :
              AuditTable[au.events[k]].ev.productId = args.productId

\* a finished scan-path timeline of several events, one of them decoded from a
\* record whose entity-id topic is spelled in another letter case than the
\* run's id
C32_Witness ==
    /\ au.pc = "done"
    /\ Len(au.events) > 2
    /\ \E k \in 1..Len(au.events) :
          /\ TopicAt(LogTable[au.events[k]], 1) # args.productId
          /\ toLowerCase(TopicAt(LogTable[au.events[k]], 1)) = toLowerCase(args.productId)

\* the same on the receipt path
C32_WitnessReceiptPath ==
    /\ dec.pc = "sorted"
    /\ Len(dec.timeline) > 1
    /\ \E k \in 1..Len(dec.timeline) :
          TopicAt(LogTable[dec.timeline[k]], 1) # dec.productId

(***************************************************************************)
(* Early stop and completeness                                             *)
(***************************************************************************)
\* the stepType values the accumulated records ids of the CidRollup scan show
StepTypesOf(ids) == {StepTypeOfLog[ids[k]] : k \in 1..Len(ids)}

\* C40: a CidRollup scan that stopped by its early-stop predicate has
\* accumulated records of all six required step types, and a report written
\* from its result has no missing step (completeness 1); with early stop
\* disabled no scan stops by a predicate.
C40_EarlyStopMeansComplete ==
    /\ scan["CidRollup"].why = "early" =>
          /\ args.earlyStop
          /\ requiredStepTypes \subseteq StepTypesOf(scan["CidRollup"].all)
          /\ au.written =>
                /\ au.report.missingStepTypes = <<>>
                /\ au.report.completeness01 = 1
    /\ ~args.earlyStop => \A s \in Labels : scan[s].why # "early"

\* a report written after the CidRollup scan stopped early on its second chunk
C40_Witness ==
    /\ au.written
    /\ scan["CidRollup"].why = "early"
    /\ Len(scan["CidRollup"].reqs) = 2
    /\ au.report.completeness01 = 1

(***************************************************************************)
(* A scan without endpoints                                                *)
(***************************************************************************)
\* C34: a scan called with an empty rpcCandidates throws in its first
\* statement: it never issues a request and never returns a result, and only
\* a scan without candidates ends that way.
C34_NoCandidatesThrowsFirst ==
    \A s \in DOMAIN scan :
        /\ (Len(args.rpcCandidates) = 0 /\ scan[s].pc # "entry") =>
              /\ scan[s].pc = "thrown"
              /\ scan[s].why = "nocandidates"
              /\ scan[s].reqs = <<>>
              /\ scan[s].reqCount = 0
              /\ scan[s].all = <<>>
              /\ scan[s].result = <<>>
        /\ scan[s].why = "nocandidates" => Len(args.rpcCandidates) = 0

\* a scan over a range that holds records of its contract, thrown for want of
\* candidates
C34_Witness ==
    /\ "CidRollup" \in DOMAIN scan
    /\ Len(args.rpcCandidates) = 0
    /\ scan["CidRollup"].pc = "thrown"
    /\ args.maxRequests > 1
    /\ args.chunk = 100

(***************************************************************************)
(* The windows of a scan                                                   *)
(***************************************************************************)
\* the successful requests of a history, in order
OkRequests(r) == SelectSeq(r, LAMBDA q : q.outcome = "ok")

\* C36: every request of a scan has fromBlock <= start <= end <= toBlock and
\* spans at most chunkSize blocks; and when the scan left its loop because
\* the cursor passed toBlock, the windows of its successful requests start at
\* fromBlock, each next one starts at the previous end + 1, and the last ends
\* at toBlock: together they cover [fromBlock, toBlock] without overlap.
C36_WindowsPartitionRange ==
    \A s \in DOMAIN scan :
        LET r == scan[s].reqs
            ok == OkRequests(r)
        IN  /\ \A i \in 1..Len(r) :
                  /\ args.fromBlock <= r[i].start
                  /\ r[i].start <= r[i].end
                  /\ r[i].end <= args.toBlock
                  /\ r[i].end - r[i].start + 1 <= r[i].chunkSize
            /\ scan[s].why = "covered" =>
                  /\ Len(ok) > 0
                  /\ ok[1].start = args.fromBlock
                  /\ \A i \in 1..(Len(ok) - 1) : ok[i + 1].start = ok[i].end + 1
                  /\ ok[Len(ok)].end = args.toBlock

\* a scan that covered its range in three windows after a halving
C36_Witness ==
    \E s \in DOMAIN scan :
        /\ scan[s].pc = "returned"
        /\ scan[s].why = "covered"
        /\ Len(OkRequests(scan[s].reqs)) = 3
        /\ Len(scan[s].reqs) > 3

(***************************************************************************)
(* Which error decides between halving and aborting                        *)
(***************************************************************************)
\* C37: when a chunk has failed on every endpoint, the decision is taken on
\* the error of the last endpoint tried alone: the scan halves and goes on
\* exactly when chunkSize > 1 and that error is a range-limit error, and
\* throws otherwise, whatever the earlier endpoints reported.
C37_LastErrorDecides ==
    [][\A s \in DOMAIN scan :
        LET a == scan[s]
            b == scan'[s]
        IN  (a.pc = "decide" /\ ~a.success /\ b # a) =>
               /\ Len(a.errs) = Len(args.rpcCandidates)
               /\ a.lastErr = a.errs[Len(a.errs)]
               /\ b.pc \in {"loop", "thrown"}
               /\ b.pc = "loop" <=>
                     (a.chunkSize > 1 /\ looksLikeRangeLimitError(a.errs[Len(a.errs)]))
               /\ b.pc = "loop" => b.chunkSize = HalvedChunk(a.chunkSize)
               /\ b.pc = "thrown" => b.why = "fatal"
      ]_vars

\* a scan that threw on a chunk of more than one block whose first endpoint
\* reported a range-limit error and whose last endpoint reported another error
C37_Witness ==
    \E s \in DOMAIN scan :
        /\ scan[s].pc = "thrown"
        /\ scan[s].why = "fatal"
        /\ scan[s].chunkSize > 1
        /\ Len(scan[s].errs) = 2
        /\ looksLikeRangeLimitError(scan[s].errs[1])
        /\ ~looksLikeRangeLimitError(scan[s].errs[2])

(***************************************************************************)
(* mapLimit: one call per index                                            *)
(***************************************************************************)
\* out[i] is what fn gives for items[i]: the receipt of that transaction (or
\* null), or nothing for a block whose timestamp is now in the cache
ResultFor(m, i) ==
    IF m.kind = "receipts"
    THEN \/ m.out[i] = Null
         \/ /\ m.out[i].st = "receipt"
            /\ m.out[i] = GetReceipt(m.items[i])
    ELSE m.out[i] = Void /\ m.items[i] \in DOMAIN h.tsCache

\* C38: mapLimit calls fn once for each index: no index is taken twice, and
\* when all workers have returned every index 0..n-1 has been taken and
\* out[i] holds the result for items[i], whatever the order of the answers.
C38_OncePerIndex ==
    h.pc \in {"receipts", "timestamps"} =>
        LET m == h.ml
        IN  /\ \A a \in 1..Len(m.calls) : \A b \in 1..Len(m.calls) :
                  a # b => m.calls[a] # m.calls[b]
            /\ Range(m.calls) \subseteq 1..Len(m.items)
            /\ AllReturned(m) =>
                  /\ Range(m.calls) = 1..Len(m.items)
                  /\ \A i \in 1..Len(m.items) : ResultFor(m, i)

\* two workers have returned after the receipts of two different
\* transactions, both with logs, were fetched
C38_Witness ==
    /\ h.pc = "receipts"
    /\ AllReturned(h.ml)
    /\ Len(h.ml.wk) = 2
    /\ Len(h.ml.items) = 2
    /\ h.ml.items[1] # h.ml.items[2]
    /\ h.ml.out[1].st = "receipt" /\ h.ml.out[2].st = "receipt"
    /\ h.ml.out[1] # h.ml.out[2]
    /\ Len(h.rfetch) = 2

(***************************************************************************)
(* A receipt that was missing in hot mode                                  *)
(***************************************************************************)
\* the run whose record is done[r], or the run under way for r = Len(done) + 1,
\* requested the receipt of the transaction of key k
FetchedIn(r, k) ==
    LET f == IF r <= Len(h.done) THEN h.done[r].rfetch
             ELSE IF h.pc \in {"receipts", "timestamps"} THEN h.rfetch
             ELSE <<>>
    IN  \E i \in 1..Len(f) : toLowerCase(f[i]) = k

\* the timeline of the completed run r holds an event of the transaction k
EventsIn(r, k) ==
    \E i \in 1..Len(h.done[r].timeline) :
        LogTable[h.done[r].timeline[i]].transactionHash = k

\* C39: in hot mode a transaction whose receipt was missing at its first
\* fetch stays cached as missing: no later run of the mode requests its
\* receipt, and no later run of the mode has an event of it in its timeline,
\* whether or not the transaction has been mined since.
C39_MissingStaysMissing ==
    \A k \in DOMAIN h.miss :
        /\ k \in DOMAIN h.receiptCache
        /\ h.receiptCache[k] = Null
        /\ \A r \in (h.miss[k] + 1)..(Len(h.done) + 1) : ~FetchedIn(r, k)
        /\ \A r \in (h.miss[k] + 1)..Len(h.done) : ~EventsIn(r, k)

\* the same for the lists that name no transaction twice
C39_MissingStaysMissingDistinct ==
    (\A i \in 1..Len(hp.txs) : \A j \in 1..Len(hp.txs) :
        i # j => ~SameTx(hp.txs[i], hp.txs[j]))
    => C39_MissingStaysMissing

\* a later run of the hot mode has completed without an event of a
\* transaction that was missing at its first fetch and has been mined since
C39_LateReceiptIgnored ==
    \E k \in DOMAIN h.miss :
        /\ k = LateTx
        /\ h.mined
        /\ h.miss[k] < Len(h.done)
        /\ h.done[Len(h.done)].mode = "hot"
        /\ h.done[Len(h.done)].rfetch = <<>>
        /\ ~EventsIn(Len(h.done), k)

(***************************************************************************)
(* The ProcessManager contract                                             *)
(***************************************************************************)
\* FairtradeTypes.ProcessStatus, by its uint8 value: Unknown, Created,
\* InTransit, AtRetail, Sold, Certified, Suspended, Revoked
StatusUnknown == 0
StatusCreated == 1
StatusRevoked == 7
ProcessStatuses == StatusUnknown..StatusRevoked

\* FairtradeTypes.Status of an actor: Unknown, Active, Suspended, Revoked
ActorActive == 1
ActorStatuses == 0..3

\* bytes32(0) and the product ids the calls are made for
ZeroProductId == Prefix0x \o Rep("0", WordHexLen)
ProcessIds == {ZeroProductId, Pid, OtherPid}

NoCall == [fn |-> "none", productId |-> ZeroProductId, newStatus |-> StatusUnknown,
           ok |-> TRUE, revert |-> "", events |-> <<>>]

\* the contract after its constructor, no call made yet
InitProcess ==
    /\ pm = [pc |-> "deployed",
             status |-> [p \in ProcessIds |-> StatusUnknown],   \* _processes[p].status
             creatorOrgId |-> [p \in ProcessIds |-> <<>>],      \* _processes[p].creatorOrgId
             creates |-> [p \in ProcessIds |-> 0],   \* history: successful createProcess calls
             last |-> NoCall]                        \* history: the last call and its outcome
    /\ NoScan
    /\ NoDec
    /\ NoHarness
    /\ NoStats
    /\ NoMain
    /\ NoRetry
    /\ NoAudit

\* a call that reverts: the storage is as before
Reverted(c, fn, productId, newStatus, msg) ==
    [c EXCEPT !.last = [fn |-> fn, productId |-> productId, newStatus |-> newStatus,
                        ok |-> FALSE, revert |-> msg, events |-> <<>>]]

\* mutant: the new status may equal the current one
MonotonicOrEqual(newStatus, oldStatus) == newStatus >= oldStatus

\* require(uint8(newStatus) > uint8(oldStatus), "ProcessManager: non-monotonic")
Monotonic(newStatus, oldStatus) == newStatus > oldStatus

\* createProcess(productId) called by an actor of the given registry status
\* and organisation
createProcess(c, actorStatus, orgIdHash, productId) ==
    IF actorStatus # ActorActive
    THEN Reverted(c, "createProcess", productId, StatusUnknown, "actor not active")
    ELSE IF productId = ZeroProductId
    THEN Reverted(c, "createProcess", productId, StatusUnknown, "zero productId")
    ELSE IF c.status[productId] # StatusUnknown
    THEN Reverted(c, "createProcess", productId, StatusUnknown, "already exists")
    ELSE [c EXCEPT !.status[productId] = StatusCreated,
                   !.creatorOrgId[productId] = orgIdHash,
                   !.creates[productId] = @ + 1,
                   !.last = [fn |-> "createProcess", productId |-> productId,
                             newStatus |-> StatusUnknown, ok |-> TRUE, revert |-> "",
                             events |-> << <<"ProcessCreated", productId, orgIdHash>>,
                                           <<"ProcessStatusChanged", productId,
                                             StatusUnknown, StatusCreated, orgIdHash>> >>]]

\* advanceStatus(productId, newStatus)
advanceStatus(c, actorStatus, orgIdHash, productId, newStatus) ==
    IF actorStatus # ActorActive
    THEN Reverted(c, "advanceStatus", productId, newStatus, "actor not active")
    ELSE IF newStatus = StatusUnknown
    THEN Reverted(c, "advanceStatus", productId, newStatus, "invalid status")
    ELSE IF c.status[productId] = StatusUnknown
    THEN Reverted(c, "advanceStatus", productId, newStatus, "process missing")
    ELSE IF ~Monotonic(newStatus, c.status[productId])
    THEN Reverted(c, "advanceStatus", productId, newStatus, "non-monotonic")
    ELSE [c EXCEPT !.status[productId] = newStatus,
                   !.last = [fn |-> "advanceStatus", productId |-> productId,
                             newStatus |-> newStatus, ok |-> TRUE, revert |-> "",
                             events |-> << <<"ProcessStatusChanged", productId,
                                             c.status[productId], newStatus, orgIdHash>> >>]]

\* a transaction calls createProcess
CallCreate ==
    /\ pm.pc = "deployed"
    /\ \E a \in ActorStatuses, o \in {OrgIdW}, p \in ProcessIds :
          pm' = createProcess(pm, a, o, p)
    /\ UNCHANGED <<scanVars, dec, harnessVars, st, mn, rt, au>>

\* a transaction calls advanceStatus
CallAdvance ==
    /\ pm.pc = "deployed"
    /\ \E a \in ActorStatuses, o \in {OrgIdW}, p \in ProcessIds, n \in ProcessStatuses :
          pm' = advanceStatus(pm, a, o, p, n)
    /\ UNCHANGED <<scanVars, dec, harnessVars, st, mn, rt, au>>

NextProcess ==
    \/ CallCreate
    \/ CallAdvance

SpecProcess == InitProcess /\ [][NextProcess]_vars

\* C35: per product id the stored status never decreases; createProcess
\* succeeds only on a product of status Unknown, which it sets to Created, and
\* so at most once per product; a successful advanceStatus strictly raises
\* the status of a process that exists, to the status asked for; a call that
\* reverts leaves every status as it was.
C35_MonotonicStatus ==
    /\ [](pm.pc = "deployed" => \A p \in ProcessIds : pm.creates[p] <= 1)
    /\ [][LET c == pm'.last
          IN  /\ \A p \in ProcessIds : pm'.status[p] >= pm.status[p]
              /\ \A p \in ProcessIds : p # c.productId => pm'.status[p] = pm.status[p]
              /\ ~c.ok => pm'.status = pm.status
              /\ (c.ok /\ c.fn = "createProcess") =>
                    /\ pm.status[c.productId] = StatusUnknown
                    /\ pm'.status[c.productId] = StatusCreated
              /\ (c.ok /\ c.fn = "advanceStatus") =>
                    /\ pm.status[c.productId] # StatusUnknown
                    /\ pm'.status[c.productId] > pm.status[c.productId]
                    /\ pm'.status[c.productId] = c.newStatus
        ]_pm

\* a process advanced to the last status and refused a further call, beside
\* another that was created
C35_Witness ==
    /\ pm.pc = "deployed"
    /\ pm.status[Pid] = StatusRevoked
    /\ pm.status[OtherPid] = StatusCreated
    /\ pm.last.fn = "advanceStatus"
    /\ pm.last.productId = Pid
    /\ ~pm.last.ok
    /\ pm.last.revert = "non-monotonic"

=============================================================================
